---- MODULE Spec2Model ----
(***************************************************************************)
(* The input seat of the native backend: MetaSeatImpl                      *)
(* (src/backends/native/meta-seat-impl.c) and MetaSeatNative               *)
(* (src/backends/native/meta-seat-native.c).                               *)
(*                                                                         *)
(* The handlers of the C code are written as operators that take the seat  *)
(* record and return the seat record after the call, so that a handler     *)
(* that calls another one (process_events draining libinput, the repeat    *)
(* timer dispatching libinput before it emits) is one step of the model.   *)
(* The actions of the specifications apply these operators.                *)
(***************************************************************************)
EXTENDS Integers, Sequences, FiniteSets, Bags, TLC

VARIABLES
  seat,      \* MetaSeatImpl: its fields, and `emitted`, what it has put out
  libinput,  \* the libinput context: plugged devices, pending and delivered events
  now,       \* the main loop's clock, in ms
  native,    \* MetaSeatNative: virtual_touch_slot_base, reserved_virtual_slots
  vdevs      \* the virtual input devices created so far, in creation order

vars == <<seat, libinput, now, native, vdevs>>

(***************************************************************************)
(* Generic helpers.                                                        *)
(***************************************************************************)
Range(f) == {f[i] : i \in DOMAIN f}

Abs(n) == IF n < 0 THEN -n ELSE n

(***************************************************************************)
(* The hardware libinput reports.  A libinput device is known by its name; *)
(* what meta_input_device_native_determine_type makes of it and whether it *)
(* carries a tablet-mode switch are properties of the hardware.            *)
(***************************************************************************)
LibinputDevices ==
  {"keyboard0", "keyboard1", "mouse0", "mouse1", "touchscreen0",
   "touchscreen1", "switch0", "convertible0", "tablet0"}

(***************************************************************************)
(* Key and button codes (linux/input.h) the runs use.                      *)
(***************************************************************************)
KEY_A == 30
KEY_B == 48
KEY_LEFTSHIFT == 42
KEY_CAPSLOCK == 58
BTN_LEFT == 272
BTN_RIGHT == 273
BTN_MIDDLE == 274
BTN_SIDE == 275
BTN_TOOL_PEN == 320
BTN_STYLUS3 == 329
BTN_TOUCH == 330
BTN_STYLUS == 331
BTN_STYLUS2 == 332

KeyCodes == {KEY_A, KEY_B, KEY_LEFTSHIFT, KEY_CAPSLOCK}
ButtonCodes == {BTN_LEFT, BTN_RIGHT, BTN_MIDDLE, BTN_SIDE}
ToolCodes == {BTN_TOUCH, BTN_STYLUS}
Codes == KeyCodes \cup ButtonCodes \cup ToolCodes

AUTOREPEAT_VALUE == 2

\* meta_input_device_native_determine_type, as called by evdev_add_device.
determine_type(libinput_device) ==
  CASE libinput_device \in {"keyboard0", "keyboard1"} -> "keyboard"
    [] libinput_device \in {"mouse0", "mouse1"} -> "pointer"
    [] libinput_device \in {"touchscreen0", "touchscreen1", "convertible0"}
         -> "touchscreen"
    [] libinput_device = "tablet0" -> "tablet"
    [] OTHER -> "extension"

\* The tablets, and the tools libinput reports in their proximity.  A tool
\* has the axes libinput_tablet_tool_has_distance and the like report, the
\* event codes its configuration gives to its buttons, as pairs of a button
\* number and a code, and the two control points x1, y1, x2, y2 of its
\* pressure curve.  NoTool is the NULL of a tablet with no tool in
\* proximity.
TabletDevices == {d \in LibinputDevices : determine_type(d) = "tablet"}
ToolAxes == {"distance", "pressure", "tilt", "rotation", "slider", "wheel"}
DefaultPressureCurve == <<<<0, 1>>, <<0, 1>>, <<1, 1>>, <<1, 1>>>>
NoTool ==
  [serial |-> 0, type |-> "NONE", axes |-> {}, button_codes |-> {},
   pressure_curve |-> DefaultPressureCurve]

\* A pen whose configuration gives the code of the second stylus button to
\* its secondary button.
Pen ==
  [serial |-> 7, type |-> "PEN", axes |-> {"distance", "pressure", "tilt"},
   button_codes |-> {<<3, BTN_STYLUS2>>},
   pressure_curve |-> DefaultPressureCurve]

\* The mouse of a tablet, with no configuration of its buttons.
Puck ==
  [serial |-> 9, type |-> "MOUSE", axes |-> {"rotation", "wheel"},
   button_codes |-> {}, pressure_curve |-> DefaultPressureCurve]

\* meta_input_device_tool_native_get_button_code: the code the tool's
\* configuration gives to the button, 0 when it gives none.
meta_input_device_tool_native_get_button_code(tool, button_nr) ==
  IF \E p \in tool.button_codes : p[1] = button_nr
  THEN (CHOOSE p \in tool.button_codes : p[1] = button_nr)[2]
  ELSE 0

\* device_is_tablet_switch: the device has the switch capability and the
\* tablet-mode switch.
device_is_tablet_switch(device) == device \in {"switch0", "convertible0"}

\* clutter_input_device_get_device_type of a device of the seat.  The two
\* logical devices are made by meta_seat_impl_constructed.
CorePointer == "core_pointer"
CoreKeyboard == "core_keyboard"

get_device_type(device) ==
  CASE device = CorePointer -> "pointer"
    [] device = CoreKeyboard -> "keyboard"
    [] OTHER -> determine_type(device)

(***************************************************************************)
(* What the seat puts out: the events it pushes on the Clutter event queue *)
(* (queue_event) and the signals it emits, kept in the order of emission.  *)
(***************************************************************************)
queue_event(s, event) ==
  [s EXCEPT !.emitted = Append(@, [kind |-> "event"] @@ event)]

signal_emit(s, name, arg) ==
  [s EXCEPT !.emitted = Append(@, [kind |-> "signal", name |-> name, arg |-> arg])]

IsEvent(e) == e.kind = "event"

Events(s) == SelectSeq(s.emitted, IsEvent)

\* us2ms
us2ms(us) == us \div 1000

(***************************************************************************)
(* Touch mode (meta-seat-impl.c, update_touch_mode and its callers).       *)
(***************************************************************************)

\* has_touchscreen: some device of the list is a touchscreen.
has_touchscreen(s) ==
  \E i \in DOMAIN s.devices : get_device_type(s.devices[i]) = "touchscreen"

\* has_tablet_switch: some device of the list is a tablet-mode switch.
has_tablet_switch(s) ==
  \E i \in DOMAIN s.devices : device_is_tablet_switch(s.devices[i])

\* The touch mode update_touch_mode computes from the three cached flags.
touch_mode_of(s) ==
  IF ~s.has_touchscreen THEN FALSE
  ELSE IF s.has_tablet_switch /\ ~s.tablet_mode_switch_state THEN FALSE
  ELSE TRUE

\* An update_touch_mode that forgets the tablet-mode switch.
update_touch_mode_ignoring_switch(s) ==
  IF s.touch_mode # s.has_touchscreen
  THEN signal_emit([s EXCEPT !.touch_mode = s.has_touchscreen],
                   "touch-mode", s.has_touchscreen)
  ELSE s

\* update_touch_mode
update_touch_mode(s) ==
  LET touch_mode == touch_mode_of(s)
  IN IF s.touch_mode # touch_mode
     THEN signal_emit([s EXCEPT !.touch_mode = touch_mode],
                      "touch-mode", touch_mode)
     ELSE s

(***************************************************************************)
(* The device list (evdev_add_device, evdev_remove_device).                *)
(***************************************************************************)
Prepend(seq, x) == <<x>> \o seq

\* g_slist_remove: the list without the first element equal to x.
RECURSIVE SlistRemove(_, _)
SlistRemove(seq, x) ==
  IF seq = <<>> THEN <<>>
  ELSE IF Head(seq) = x THEN Tail(seq)
  ELSE <<Head(seq)>> \o SlistRemove(Tail(seq), x)

\* A meta_seat_impl_clear_repeat_timer that removes the timer and keeps the
\* reference to the device.
meta_seat_impl_clear_repeat_timer_keeping_device(s) ==
  IF s.repeat_timer # 0 THEN [s EXCEPT !.repeat_timer = 0] ELSE s

\* meta_seat_impl_clear_repeat_timer
meta_seat_impl_clear_repeat_timer(s) ==
  IF s.repeat_timer # 0
  THEN [s EXCEPT !.repeat_timer = 0, !.repeat_device = "none"]
  ELSE s

\* An evdev_add_device that leaves the new device out of the list.
evdev_add_device_unlisted(s, libinput_device) == s

\* What the object of a device holds, as a new object holds it: a tablet
\* has no tool, the absolute mapping mode and the coordinates (0, 0).
new_device_object(s, device) ==
  IF device \in TabletDevices
  THEN [s EXCEPT !.last_tool[device] = NoTool,
                 !.mapping_mode[device] = "ABSOLUTE",
                 !.device_coords[device] = [x |-> <<0, 1>>, y |-> <<0, 1>>]]
  ELSE s

\* meta_input_device_native_new: the device is a new object, whatever the
\* object of the same libinput device held before.
meta_input_device_native_new(s, libinput_device) ==
  new_device_object(s, libinput_device)

\* g_object_run_dispose and g_object_unref of the device: the object and
\* what it held are gone.
g_object_run_dispose(s, device) == new_device_object(s, device)

\* The rest of evdev_add_device, once the device object is made.
add_new_device(s, libinput_device) ==
  LET is_touchscreen == determine_type(libinput_device) = "touchscreen"
      is_tablet_switch == device_is_tablet_switch(libinput_device)
      s1 == [s EXCEPT !.devices = Prepend(@, libinput_device),
                      !.has_touchscreen = @ \/ is_touchscreen,
                      !.has_tablet_switch = @ \/ is_tablet_switch]
  IN IF is_touchscreen \/ is_tablet_switch THEN update_touch_mode(s1) ELSE s1

\* evdev_add_device
evdev_add_device(s, libinput_device) ==
  add_new_device(meta_input_device_native_new(s, libinput_device),
                 libinput_device)

\* An evdev_remove_device that leaves the repeat timer alone.
evdev_remove_device_keeping_timer(s, device) ==
  LET is_touchscreen == get_device_type(device) = "touchscreen"
      is_tablet_switch == device_is_tablet_switch(device)
      s1 == [s EXCEPT !.devices = SlistRemove(@, device)]
      s2 == IF is_touchscreen
            THEN [s1 EXCEPT !.has_touchscreen = has_touchscreen(s1)] ELSE s1
      s3 == IF is_tablet_switch
            THEN [s2 EXCEPT !.has_tablet_switch = has_tablet_switch(s2)] ELSE s2
  IN g_object_run_dispose(
       IF is_touchscreen \/ is_tablet_switch THEN update_touch_mode(s3) ELSE s3,
       device)

\* evdev_remove_device
evdev_remove_device(s, device) ==
  LET is_touchscreen == get_device_type(device) = "touchscreen"
      is_tablet_switch == device_is_tablet_switch(device)
      s1 == [s EXCEPT !.devices = SlistRemove(@, device)]
      s2 == IF is_touchscreen
            THEN [s1 EXCEPT !.has_touchscreen = has_touchscreen(s1)] ELSE s1
      s3 == IF is_tablet_switch
            THEN [s2 EXCEPT !.has_tablet_switch = has_tablet_switch(s2)] ELSE s2
      s4 == IF is_touchscreen \/ is_tablet_switch
            THEN update_touch_mode(s3) ELSE s3
  IN g_object_run_dispose(
       IF s4.repeat_timer # 0 /\ s4.repeat_device = device
       THEN meta_seat_impl_clear_repeat_timer(s4) ELSE s4,
       device)

\* A process_base_event that queues the DEVICE_ADDED event before it adds
\* the device.
process_base_event_added_first(s, event) ==
  CASE event.type = "DEVICE_ADDED" ->
         evdev_add_device(
           queue_event(s, [type |-> "DEVICE_ADDED", device |-> event.device]),
           event.device)
    [] event.type = "DEVICE_REMOVED" ->
         queue_event(evdev_remove_device(s, event.device),
                     [type |-> "DEVICE_REMOVED", device |-> event.device])
    [] OTHER -> s

\* process_base_event: the seat after the event, for the two event types
\* it handles.
process_base_event(s, event) ==
  CASE event.type = "DEVICE_ADDED" ->
         queue_event(evdev_add_device(s, event.device),
                     [type |-> "DEVICE_ADDED", device |-> event.device])
    [] event.type = "DEVICE_REMOVED" ->
         queue_event(evdev_remove_device(s, event.device),
                     [type |-> "DEVICE_REMOVED", device |-> event.device])
    [] OTHER -> s

\* button_count[] holds one uint8_t per code.
BUTTON_COUNT_MODULUS == 256

(***************************************************************************)
(* The xkb keyboard state, an external component.  It keeps the keys that  *)
(* are down and the locked modifiers; Caps Lock toggles the Lock modifier  *)
(* when it goes down, Shift is a depressed modifier while it is down.      *)
(***************************************************************************)
XkbInit == [down |-> {}, locked |-> {}, latched |-> {}, layout |-> 0]

\* xkb_state_new on a keymap, as meta_seat_impl_constructed calls it.
xkb_state_new == XkbInit

\* xkb_keymap_key_repeats: modifier and lock keys do not repeat.
xkb_keymap_key_repeats(key) == key \in {KEY_A, KEY_B}

\* The state after xkb_state_update_key(key, direction).
xkb_state_update_key(xkb, key, down) ==
  IF down
  THEN [xkb EXCEPT
          !.down = @ \cup {key},
          !.locked = IF key = KEY_CAPSLOCK /\ key \notin xkb.down
                     THEN (IF "Lock" \in @ THEN @ \ {"Lock"} ELSE @ \cup {"Lock"})
                     ELSE @]
  ELSE [xkb EXCEPT !.down = @ \ {key}]

\* xkb_state_serialize_mods(XKB_STATE_MODS_DEPRESSED)
xkb_depressed_mods(xkb) == IF KEY_LEFTSHIFT \in xkb.down THEN {"Shift"} ELSE {}

\* The modifiers in effect.
xkb_effective_mods(xkb) == xkb_depressed_mods(xkb) \cup xkb.latched \cup xkb.locked

\* The LEDs xkb_state_led_index_is_active reports lit.
xkb_leds(xkb) ==
  (IF "Lock" \in xkb.locked THEN {"CAPS_LOCK"} ELSE {}) \cup
  (IF "Mod2" \in xkb.locked THEN {"NUM_LOCK"} ELSE {})

\* Whether XKB_STATE_LEDS is among the components a key update changed.
xkb_leds_changed(before, after) == xkb_leds(before) # xkb_leds(after)

\* The layouts and the modifiers of the keymap in use, in the order of
\* their indices (index 0 first).
KeymapLayouts == <<"us", "cz">>
KeymapMods == <<"Shift", "Lock", "Control", "Mod1", "Mod2">>

xkb_keymap_num_layouts == Len(KeymapLayouts)

xkb_keymap_mod_get_index(name) ==
  (CHOOSE i \in DOMAIN KeymapMods : KeymapMods[i] = name) - 1

\* A set of modifiers as an xkb_mod_mask_t, bit i for the modifier of
\* index i, and the modifiers of the keymap a mask names.
RECURSIVE mod_mask(_, _)
mod_mask(mods, n) ==
  IF n = 0 THEN 0
  ELSE mod_mask(mods, n - 1) + (IF KeymapMods[n] \in mods THEN 2 ^ (n - 1) ELSE 0)

mask_has(mask, bit) == (mask \div bit) % 2 = 1
mask_or(mask, bit) == IF mask_has(mask, bit) THEN mask ELSE mask + bit
mask_and_not(mask, bit) == IF mask_has(mask, bit) THEN mask - bit ELSE mask

mask_mods(mask) ==
  {KeymapMods[i] : i \in {j \in DOMAIN KeymapMods : mask_has(mask, 2 ^ (j - 1))}}

\* xkb_state_serialize_mods for one component of the state.
xkb_state_serialize_mods(xkb, component) ==
  mod_mask(CASE component = "DEPRESSED" -> xkb_depressed_mods(xkb)
             [] component = "LATCHED" -> xkb.latched
             [] component = "LOCKED" -> xkb.locked,
           Len(KeymapMods))

\* xkb_state_serialize_layout(XKB_STATE_LAYOUT_EFFECTIVE)
xkb_state_serialize_layout(xkb) == xkb.layout

\* xkb_state_update_mask with depressed and latched layout 0: the masks
\* replace the modifiers of the state, a key that gave a depressed modifier
\* the mask does not name no longer gives it, and the locked layout is
\* wrapped into the layouts the keymap has.
xkb_state_update_mask(xkb, depressed_mods, latched_mods, locked_mods, locked_layout) ==
  [xkb EXCEPT
     !.down = {k \in @ : k = KEY_LEFTSHIFT => "Shift" \in mask_mods(depressed_mods)},
     !.latched = mask_mods(latched_mods),
     !.locked = mask_mods(locked_mods),
     !.layout = locked_layout % xkb_keymap_num_layouts]

\* meta_xkb_translate_state: the modifier state an event carries.
meta_xkb_translate_state(s) == xkb_effective_mods(s.xkb) \cup s.button_state

\* meta_seat_impl_sync_leds: every device of the list gets the LEDs, one
\* libinput_device_led_update after the other.
meta_seat_impl_sync_leds(s) ==
  [s EXCEPT !.leds = [d \in DOMAIN @ |->
                        IF \E i \in DOMAIN s.devices : s.devices[i] = d
                        THEN xkb_leds(s.xkb) ELSE @[d]],
            !.led_updates = @ \o [i \in DOMAIN s.devices |->
                                    [device |-> s.devices[i],
                                     leds |-> xkb_leds(s.xkb)]]]

(***************************************************************************)
(* Key and button notification (meta-seat-impl.c).                         *)
(***************************************************************************)

\* An update_button_count that returns the count of a release without
\* storing it.
update_button_count_release_unstored(count, state) ==
  IF state # 0 THEN (count + 1) % BUTTON_COUNT_MODULUS ELSE count

\* update_button_count: the counter of the code after the call.  The value
\* the call returns is the new counter.
update_button_count(count, state) ==
  IF state # 0 THEN (count + 1) % BUTTON_COUNT_MODULUS
  ELSE IF count = 0 THEN 0
  ELSE count - 1

\* The timer clutter_threads_add_timeout_full adds: a GLib timeout source
\* that expires `interval` ms from now and then every `interval` ms.
add_repeat_timeout(s, device, interval) ==
  [s EXCEPT !.repeat_device = device,
            !.repeat_timer = 1,
            !.timer_interval = interval,
            !.timer_remaining = interval]

\* The part of meta_seat_impl_notify_key after the event is queued: the
\* repeat timer.
notify_key_repeat(s, device, key, state) ==
  IF state = 0 \/ ~s.repeat \/ ~xkb_keymap_key_repeats(key)
  THEN meta_seat_impl_clear_repeat_timer(s)
  ELSE LET count == (IF state = 1 THEN 0 ELSE s.repeat_count) + 1
           s1 == [s EXCEPT !.repeat_count = count, !.repeat_key = key]
       IN IF count \in {1, 2}
          THEN add_repeat_timeout(meta_seat_impl_clear_repeat_timer(s1), device,
                                  IF count = 1 THEN s1.repeat_delay
                                  ELSE s1.repeat_interval)
          ELSE s1

\* A notify_key that passes repeat events to xkb and counts them as presses.
meta_seat_impl_notify_key_counting_repeats(s, device, time_us, key, state, update_keys) ==
  LET s1 == [s EXCEPT !.button_count[key] = update_button_count(@, state),
                      !.xkb = xkb_state_update_key(@, key, state # 0)]
      event == [type |-> "KEY_PRESS", key |-> key, state |-> state,
                flags |-> {}, time |-> us2ms(time_us), time_us |-> 0,
                modifier_state |-> meta_xkb_translate_state(s),
                device |-> CoreKeyboard, source_device |-> device]
  IN notify_key_repeat(queue_event(s1, event), device, key, state)

\* meta_seat_impl_notify_key.  meta_key_event_new_from_evdev takes the time in
\* ms, and the function sets no time in us on the event: it stays 0.
meta_seat_impl_notify_key(s, device, time_us, key, state, update_keys) ==
  LET counted == state # AUTOREPEAT_VALUE
      count == update_button_count(s.button_count[key], state)
      s1 == IF counted THEN [s EXCEPT !.button_count[key] = count] ELSE s
      dropped == counted /\ ((state # 0 /\ count > 1) \/ (state = 0 /\ count # 0))
      event == [type |-> IF state # 0 THEN "KEY_PRESS" ELSE "KEY_RELEASE",
                key |-> key, state |-> state,
                flags |-> IF counted THEN {} ELSE {"REPEATED"},
                time |-> us2ms(time_us), time_us |-> 0,
                modifier_state |-> meta_xkb_translate_state(s1),
                device |-> CoreKeyboard, source_device |-> device]
      xkb2 == IF counted THEN xkb_state_update_key(s1.xkb, key, state # 0)
              ELSE s1.xkb
      s2 == queue_event([s1 EXCEPT !.xkb = xkb2], event)
      s3 == IF update_keys /\ counted /\ xkb_leds_changed(s1.xkb, xkb2)
            THEN meta_seat_impl_sync_leds(
                   signal_emit(s2, "mods-state-changed", TRUE))
            ELSE s2
  IN IF dropped THEN s1 ELSE notify_key_repeat(s3, device, key, state)

\* The Clutter button number of an evdev button code on a device that is
\* not a tablet (the switch of meta_seat_impl_notify_button).
button_nr_of(button) ==
  CASE button \in {BTN_LEFT, BTN_TOUCH} -> 1
    [] button \in {BTN_RIGHT, BTN_STYLUS} -> 3
    [] button \in {BTN_MIDDLE, BTN_STYLUS2} -> 2
    [] button = BTN_STYLUS3 -> 8
    [] OTHER -> button - (BTN_LEFT - 1) + 4

\* maskmap[button_nr - 1], the modifier bit of a button number below 8.
maskmap(button_nr) ==
  CASE button_nr = 1 -> {"BUTTON1_MASK"}
    [] button_nr = 2 -> {"BUTTON3_MASK"}
    [] button_nr = 3 -> {"BUTTON2_MASK"}
    [] button_nr = 4 -> {"BUTTON4_MASK"}
    [] button_nr = 5 -> {"BUTTON5_MASK"}
    [] OTHER -> {}

\* The button number on the device: the additional buttons of a tablet
\* count from BTN_TOOL_PEN.
button_nr_on(input_device, button) ==
  IF /\ get_device_type(input_device) = "tablet"
     /\ button \notin {BTN_LEFT, BTN_TOUCH, BTN_RIGHT, BTN_STYLUS, BTN_MIDDLE,
                       BTN_STYLUS2, BTN_STYLUS3}
  THEN button - BTN_TOOL_PEN + 4
  ELSE button_nr_of(button)

\* The button event of a device: the one of a tablet is at the coordinates
\* of the tablet, comes from the tablet and carries its tool.
button_event_of(s, input_device, event) ==
  IF get_device_type(input_device) = "tablet"
  THEN [x |-> s.device_coords[input_device].x,
        y |-> s.device_coords[input_device].y,
        device |-> input_device,
        tool |-> s.last_tool[input_device]] @@ event
  ELSE event

\* The event code of a button event: the code the last tool of the device
\* maps the button number to, and the code of the button when the device has
\* no last tool or the tool maps the number to no code.
mapped_button(s, input_device, button, button_nr) ==
  IF input_device \notin DOMAIN s.last_tool THEN button
  ELSE IF s.last_tool[input_device] = NoTool THEN button
  ELSE IF meta_input_device_tool_native_get_button_code(
            s.last_tool[input_device], button_nr) # 0
  THEN meta_input_device_tool_native_get_button_code(
         s.last_tool[input_device], button_nr)
  ELSE button

\* meta_seat_impl_notify_button
meta_seat_impl_notify_button(s, input_device, time_us, button, state) ==
  LET button_count == update_button_count(s.button_count[button], state)
      s1 == [s EXCEPT !.button_count[button] = button_count]
      dropped == (state # 0 /\ button_count > 1) \/ (state = 0 /\ button_count # 0)
      button_nr == button_nr_on(input_device, button)
      s2 == IF button_nr < 8
            THEN [s1 EXCEPT !.button_state =
                              IF state # 0 THEN @ \cup maskmap(button_nr)
                              ELSE @ \ maskmap(button_nr)]
            ELSE s1
      event == [type |-> IF state # 0 THEN "BUTTON_PRESS" ELSE "BUTTON_RELEASE",
                button |-> button_nr,
                event_code |-> mapped_button(s, input_device, button, button_nr),
                time |-> us2ms(time_us), time_us |-> time_us,
                modifier_state |-> meta_xkb_translate_state(s2),
                x |-> s2.pointer_x, y |-> s2.pointer_y,
                device |-> CorePointer, source_device |-> input_device]
  IN IF dropped THEN s1
     ELSE IF button_nr < 1 \/ button_nr > 12 THEN s1
     ELSE queue_event(s2, button_event_of(s2, input_device, event))

(***************************************************************************)
(* Scrolling (meta-seat-impl.c).  Scroll values are whole numbers of the   *)
(* pointer-motion unit libinput reports; a scroll delta of an event is the *)
(* fraction <<numerator, denominator>> in lowest terms.                    *)
(***************************************************************************)
DISCRETE_SCROLL_STEP == 10

RECURSIVE Gcd(_, _)
Gcd(a, b) == IF b = 0 THEN a ELSE Gcd(b, a % b)

\* The fraction n/d, d > 0, in lowest terms.
Frac(n, d) ==
  LET g == Gcd(Abs(n), d) IN <<n \div g, d \div g>>

\* fmodf(a, m) of C for m > 0: the remainder has the sign of a.
fmodf(a, m) == IF a >= 0 THEN a % m ELSE -((-a) % m)

\* notify_scroll
notify_scroll(s, input_device, time_us, dx, dy, scroll_source, flags, emulated) ==
  queue_event(s, [type |-> "SCROLL", direction |-> "SMOOTH",
                  delta_x |-> Frac(dx, DISCRETE_SCROLL_STEP),
                  delta_y |-> Frac(dy, DISCRETE_SCROLL_STEP),
                  time |-> us2ms(time_us), time_us |-> time_us,
                  modifier_state |-> meta_xkb_translate_state(s),
                  x |-> s.pointer_x, y |-> s.pointer_y,
                  device |-> CorePointer, source_device |-> input_device,
                  scroll_source |-> scroll_source, finish_flags |-> flags,
                  emulated |-> emulated])

\* notify_discrete_scroll
notify_discrete_scroll(s, input_device, time_us, direction, scroll_source, emulated) ==
  IF direction = "SMOOTH" THEN s
  ELSE queue_event(s, [type |-> "SCROLL", direction |-> direction,
                       delta_x |-> Frac(0, 1), delta_y |-> Frac(0, 1),
                       time |-> us2ms(time_us), time_us |-> time_us,
                       modifier_state |-> meta_xkb_translate_state(s),
                       x |-> s.pointer_x, y |-> s.pointer_y,
                       device |-> CorePointer, source_device |-> input_device,
                       scroll_source |-> scroll_source, finish_flags |-> {},
                       emulated |-> emulated])

\* One of the two loops of check_notify_discrete_scroll: n discrete events.
RECURSIVE notify_discrete_scroll_times(_, _, _, _, _, _)
notify_discrete_scroll_times(s, n, input_device, time_us, direction, scroll_source) ==
  IF n <= 0 THEN s
  ELSE notify_discrete_scroll_times(
         notify_discrete_scroll(s, input_device, time_us, direction,
                                scroll_source, TRUE),
         n - 1, input_device, time_us, direction, scroll_source)

\* A check_notify_discrete_scroll that emits the discrete events and keeps
\* the whole accumulator.
check_notify_discrete_scroll_keeping(s, device, time_us, scroll_source) ==
  LET n_xscrolls == Abs(s.accum_scroll_dx) \div DISCRETE_SCROLL_STEP
      n_yscrolls == Abs(s.accum_scroll_dy) \div DISCRETE_SCROLL_STEP
      s1 == notify_discrete_scroll_times(
              s, n_xscrolls, device, time_us,
              IF s.accum_scroll_dx > 0 THEN "RIGHT" ELSE "LEFT", scroll_source)
  IN notify_discrete_scroll_times(
       s1, n_yscrolls, device, time_us,
       IF s.accum_scroll_dy > 0 THEN "DOWN" ELSE "UP", scroll_source)

\* check_notify_discrete_scroll
check_notify_discrete_scroll(s, device, time_us, scroll_source) ==
  LET n_xscrolls == Abs(s.accum_scroll_dx) \div DISCRETE_SCROLL_STEP
      n_yscrolls == Abs(s.accum_scroll_dy) \div DISCRETE_SCROLL_STEP
      s1 == notify_discrete_scroll_times(
              s, n_xscrolls, device, time_us,
              IF s.accum_scroll_dx > 0 THEN "RIGHT" ELSE "LEFT", scroll_source)
      s2 == notify_discrete_scroll_times(
              s1, n_yscrolls, device, time_us,
              IF s.accum_scroll_dy > 0 THEN "DOWN" ELSE "UP", scroll_source)
  IN [s2 EXCEPT !.accum_scroll_dx = fmodf(@, DISCRETE_SCROLL_STEP),
                !.accum_scroll_dy = fmodf(@, DISCRETE_SCROLL_STEP)]

\* A notify_scroll_continuous that adds the delta whatever the finish flags.
meta_seat_impl_notify_scroll_continuous_adding(s, input_device, time_us, dx, dy, scroll_source, finish_flags) ==
  LET s1 == [s EXCEPT !.accum_scroll_dx = @ + dx,
                      !.accum_scroll_dy = @ + dy]
      s2 == notify_scroll(s1, input_device, time_us, dx, dy, scroll_source,
                          finish_flags, FALSE)
  IN check_notify_discrete_scroll(s2, input_device, time_us, scroll_source)

\* meta_seat_impl_notify_scroll_continuous
meta_seat_impl_notify_scroll_continuous(s, input_device, time_us, dx, dy, scroll_source, finish_flags) ==
  LET s1 == [s EXCEPT
               !.accum_scroll_dx =
                  IF "FINISHED_HORIZONTAL" \in finish_flags THEN 0 ELSE @ + dx,
               !.accum_scroll_dy =
                  IF "FINISHED_VERTICAL" \in finish_flags THEN 0 ELSE @ + dy]
      s2 == notify_scroll(s1, input_device, time_us, dx, dy, scroll_source,
                          finish_flags, FALSE)
  IN check_notify_discrete_scroll(s2, input_device, time_us, scroll_source)

\* discrete_to_direction; the code asserts that one of the two is not 0,
\* and returns 0, which is CLUTTER_SCROLL_UP, in a build without assertions.
discrete_to_direction(discrete_dx, discrete_dy) ==
  CASE discrete_dx > 0 -> "RIGHT"
    [] discrete_dx < 0 -> "LEFT"
    [] discrete_dy > 0 -> "DOWN"
    [] discrete_dy < 0 -> "UP"
    [] OTHER -> "ABORT"

\* meta_seat_impl_notify_discrete_scroll
meta_seat_impl_notify_discrete_scroll(s, input_device, time_us, discrete_dx, discrete_dy, scroll_source) ==
  LET s1 == notify_scroll(s, input_device, time_us,
                          discrete_dx * DISCRETE_SCROLL_STEP,
                          discrete_dy * DISCRETE_SCROLL_STEP,
                          scroll_source, {}, TRUE)
      direction == discrete_to_direction(discrete_dx, discrete_dy)
  IN IF direction = "ABORT" /\ ~s.g_disable_assert
     THEN [s1 EXCEPT !.aborted = TRUE]
     ELSE notify_discrete_scroll(s1, input_device, time_us,
                                 IF direction = "ABORT" THEN "UP" ELSE direction,
                                 scroll_source, FALSE)

\* notify_continuous_axis: an axis the event does not have reads as 0 and
\* sets no flag; an axis it has with the value 0 is finished.
notify_continuous_axis(s, device, time_us, scroll_source, axis_event) ==
  LET dx == IF axis_event.has_horizontal THEN axis_event.horizontal ELSE 0
      dy == IF axis_event.has_vertical THEN axis_event.vertical ELSE 0
      finish_flags ==
        (IF axis_event.has_horizontal /\ dx = 0
         THEN {"FINISHED_HORIZONTAL"} ELSE {}) \cup
        (IF axis_event.has_vertical /\ dy = 0
         THEN {"FINISHED_VERTICAL"} ELSE {})
  IN meta_seat_impl_notify_scroll_continuous(s, device, time_us, dx, dy,
                                             scroll_source, finish_flags)

\* notify_discrete_axis
notify_discrete_axis(s, device, time_us, scroll_source, axis_event) ==
  LET discrete_dx == IF axis_event.has_horizontal
                     THEN axis_event.horizontal_discrete ELSE 0
      discrete_dy == IF axis_event.has_vertical
                     THEN axis_event.vertical_discrete ELSE 0
  IN meta_seat_impl_notify_discrete_scroll(s, device, time_us,
                                           discrete_dx, discrete_dy,
                                           scroll_source)

\* translate_scroll_source
translate_scroll_source(source) ==
  CASE source = "wheel" -> "WHEEL"
    [] source = "finger" -> "FINGER"
    [] source = "continuous" -> "CONTINUOUS"
    [] OTHER -> "UNKNOWN"

(***************************************************************************)
(* Pointer coordinates.  A coordinate is the fraction                      *)
(* <<numerator, denominator>> in lowest terms with a positive denominator. *)
(* The C code computes the coordinates in float: the value of a float is   *)
(* such a fraction, with a power of two as its denominator, and the        *)
(* operations on floats below round as the hardware does.                  *)
(***************************************************************************)
Q(n) == <<n, 1>>

QNorm(n, d) ==
  LET sn == IF d < 0 THEN -n ELSE n
      sd == Abs(d)
  IN Frac(sn, sd)

QAdd(a, b) == QNorm(a[1] * b[2] + b[1] * a[2], a[2] * b[2])
QSub(a, b) == QNorm(a[1] * b[2] - b[1] * a[2], a[2] * b[2])
QMul(a, b) == QNorm(a[1] * b[1], a[2] * b[2])
QDiv(a, b) == QNorm(a[1] * b[2], a[2] * b[1])

\* The fractional parts ra/da and rb/db compared: over the greater of the
\* denominators when it is a multiple of the other.
QFracLt(ra, da, rb, db) ==
  IF da % db = 0 THEN ra < rb * (da \div db)
  ELSE IF db % da = 0 THEN ra * (db \div da) < rb
  ELSE ra * db < rb * da

\* a < b: by the whole parts, and by the fractional parts when the whole
\* parts are equal.
QPartsLt(wa, ra, da, wb, rb, db) ==
  IF wa # wb THEN wa < wb ELSE QFracLt(ra, da, rb, db)

QLt(a, b) ==
  QPartsLt(a[1] \div a[2], a[1] % a[2], a[2], b[1] \div b[2], b[1] % b[2], b[2])
QLe(a, b) == a = b \/ QLt(a, b)
QGe(a, b) == QLe(b, a)

(***************************************************************************)
(* Single-precision floats (IEEE 754 binary32, round to nearest, ties to   *)
(* even).  A float is the record [neg, m, e] of the value                  *)
(* (-1)^neg * m * 2^e with 2^23 <= m < 2^24, or m = 0 for zero.  The       *)
(* exponent is not bounded: no value of the model is near the ends of the  *)
(* range of a float.                                                       *)
(***************************************************************************)
Pow2Table ==
  <<1, 2, 4, 8, 16, 32, 64, 128, 256, 512, 1024, 2048, 4096, 8192, 16384,
    32768, 65536, 131072, 262144, 524288, 1048576, 2097152, 4194304, 8388608,
    16777216, 33554432, 67108864, 134217728, 268435456, 536870912, 1073741824>>

\* 2^k for k in 0 .. 30.
Pow2(k) == Pow2Table[k + 1]

Pow2Set == {Pow2Table[i] : i \in DOMAIN Pow2Table}

\* The number of binary digits of m > 0.
RECURSIVE BitLen(_)
BitLen(m) == IF m < 2 THEN 1 ELSE 1 + BitLen(m \div 2)

FloatOf(neg, m, e) == [neg |-> neg, m |-> m, e |-> e]

FloatZero == FloatOf(FALSE, 0, 0)

FloatNeg(a) == IF a.m = 0 THEN a ELSE FloatOf(~a.neg, a.m, a.e)

\* The end of a rounding: q holds the 24 leading digits, r the digits cut
\* off and `half` the weight of the first of them; `sticky` tells that the
\* value has digits below those of r.  Exactly half rounds to even.
float_round_up(neg, q, r, half, e, sticky) ==
  IF r > half \/ (r = half /\ (sticky \/ q % 2 = 1))
  THEN IF q + 1 = Pow2(24)
       THEN FloatOf(neg, Pow2(23), e + 1)
       ELSE FloatOf(neg, q + 1, e)
  ELSE FloatOf(neg, q, e)

float_round_to(neg, m, e, sticky, bits) ==
  IF bits <= 24
  THEN FloatOf(neg, m * Pow2(24 - bits), e - (24 - bits))
  ELSE float_round_up(neg, m \div Pow2(bits - 24),
                      m % Pow2(bits - 24),
                      Pow2(bits - 25),
                      e + bits - 24, sticky)

\* The float nearest to m * 2^e, or to a value just above it (sticky).
float_round(neg, m, e, sticky) ==
  IF m = 0 THEN FloatZero ELSE float_round_to(neg, m, e, sticky, BitLen(m))

\* The sum of two floats, the first with the greater exponent: a and b are
\* the significands with five more digits, b shifted to the exponent of a,
\* and `sticky` tells that the shift has cut digits off.
float_add_shifted(a_neg, b_neg, a, b, e, sticky) ==
  float_round(IF a_neg = b_neg \/ a >= b THEN a_neg ELSE b_neg,
              IF a_neg = b_neg THEN a + b
              ELSE IF a > b THEN a - b - (IF sticky THEN 1 ELSE 0)
              ELSE b - a,
              e, sticky)

float_add_ordered(a, b, diff) ==
  float_add_shifted(a.neg, b.neg, a.m * 32,
                    IF diff > 29 THEN 0 ELSE (b.m * 32) \div Pow2(diff),
                    a.e - 5,
                    diff > 29 \/ (b.m * 32) % Pow2(diff) # 0)

\* a + b in float.
FloatAdd(a, b) ==
  IF a.m = 0 THEN b
  ELSE IF b.m = 0 THEN a
  ELSE float_add_ordered(IF a.e >= b.e THEN a ELSE b,
                         IF a.e >= b.e THEN b ELSE a, Abs(a.e - b.e))

\* a - b in float.
FloatSub(a, b) == FloatAdd(a, FloatNeg(b))

\* The product of the significands a1 * 2^12 + a0 and b1 * 2^12 + b0 is
\* high * 2^24 + low.
float_mul_sum(neg, high, low, e) ==
  float_round(neg, (high + low \div 16777216) * 64 + (low % 16777216) \div 262144,
              e + 18, low % 262144 # 0)

float_mul_parts(neg, a1, a0, b1, b0, e) ==
  float_mul_sum(neg, a1 * b1 + (a1 * b0 + a0 * b1) \div 4096,
                a0 * b0 + ((a1 * b0 + a0 * b1) % 4096) * 4096, e)

\* a * b in float.
FloatMul(a, b) ==
  IF a.m = 0 \/ b.m = 0 THEN FloatZero
  ELSE float_mul_parts(a.neg # b.neg, a.m \div 4096, a.m % 4096,
                       b.m \div 4096, b.m % 4096, a.e + b.e)

\* n more binary digits of the quotient q with remainder r of a division
\* by d.
RECURSIVE float_div_digits(_, _, _, _)
float_div_digits(q, r, d, n) ==
  IF n = 0 THEN <<q, r>>
  ELSE IF 2 * r >= d THEN float_div_digits(2 * q + 1, 2 * r - d, d, n - 1)
  ELSE float_div_digits(2 * q, 2 * r, d, n - 1)

float_div_round(neg, qr, e) == float_round(neg, qr[1], e, qr[2] # 0)

\* a / b in float, b not zero.
FloatDiv(a, b) ==
  IF a.m = 0 THEN FloatZero
  ELSE float_div_round(a.neg # b.neg,
                       float_div_digits(a.m \div b.m, a.m % b.m, b.m, 26),
                       a.e - b.e - 26)

\* The float of a fraction that is a float: a fraction with a power of two
\* as its denominator and a numerator of no more than 24 digits before its
\* zeros.  The values of the C code on the path of a motion are of the type
\* float.
float_normal(neg, n, shift, e) ==
  FloatOf(neg, IF shift >= 0 THEN n * Pow2(shift) ELSE n \div Pow2(-shift),
          e - shift)

FloatOfQ(a) ==
  IF a[1] = 0 THEN FloatZero
  ELSE float_normal(a[1] < 0, Abs(a[1]), 24 - BitLen(Abs(a[1])),
                    1 - BitLen(a[2]))

\* The fraction a float is.
RECURSIVE float_fraction(_, _, _)
float_fraction(neg, m, e) ==
  IF e >= 0 THEN Q((IF neg THEN -m ELSE m) * Pow2(e))
  ELSE IF m % 2 = 0 THEN float_fraction(neg, m \div 2, e + 1)
  ELSE <<IF neg THEN -m ELSE m, Pow2(-e)>>

QOfFloat(a) == IF a.m = 0 THEN Q(0) ELSE float_fraction(a.neg, a.m, a.e)

\* Whether the float is a multiple of 1/4 with a numerator below the limit
\* in size: the sum of two such below 2^19, and the product of two below
\* 2^12, have no more than 24 digits, and the float operation gives them as
\* they are.
QShort(a, limit) ==
  a[2] \in {1, 2, 4} /\ a[1] > -limit /\ a[1] < limit

\* The float operations on the fractions floats are.
float_add(a, b) ==
  IF QShort(a, 524288) /\ QShort(b, 524288) THEN QAdd(a, b)
  ELSE QOfFloat(FloatAdd(FloatOfQ(a), FloatOfQ(b)))

float_sub(a, b) ==
  IF QShort(a, 524288) /\ QShort(b, 524288) THEN QSub(a, b)
  ELSE QOfFloat(FloatSub(FloatOfQ(a), FloatOfQ(b)))

float_mul(a, b) ==
  IF QShort(a, 4096) /\ QShort(b, 4096) THEN QMul(a, b)
  ELSE QOfFloat(FloatMul(FloatOfQ(a), FloatOfQ(b)))

\* a / b in float, b not zero: the quotient of two short floats as it is
\* when it is a float.
float_quotient(a, b, exact) ==
  IF exact[2] \in Pow2Set THEN exact
  ELSE QOfFloat(FloatDiv(FloatOfQ(a), FloatOfQ(b)))

float_div(a, b) ==
  IF QShort(a, 4096) /\ QShort(b, 4096) THEN float_quotient(a, b, QDiv(a, b))
  ELSE QOfFloat(FloatDiv(FloatOfQ(a), FloatOfQ(b)))

(***************************************************************************)
(* MetaViewportInfo, MetaLine2 and the pointer constraint are components   *)
(* outside the two files.  A viewport layout is the sequence of its views, *)
(* each a rectangle of whole pixels with a scale; `set` tells a layout     *)
(* from the NULL the seat starts with.                                     *)
(***************************************************************************)
NoViewports == [set |-> FALSE, views |-> <<>>]

View(x, y, width, height, scale) ==
  [x |-> x, y |-> y, width |-> width, height |-> height, scale |-> scale]

\* meta_viewport_info_get_extents: the size of the stage the views span.
RECURSIVE extent_of(_, _, _)
extent_of(views, i, axis) ==
  IF i > Len(views) THEN 0
  ELSE LET far == IF axis = "x" THEN views[i].x + views[i].width
                  ELSE views[i].y + views[i].height
           rest == extent_of(views, i + 1, axis)
       IN IF far > rest THEN far ELSE rest

meta_viewport_info_get_extents(viewports) ==
  [width |-> extent_of(viewports.views, 1, "x"),
   height |-> extent_of(viewports.views, 1, "y")]

\* libinput_event_pointer_get_absolute_x_transformed and the like for the
\* y axis, a touch and a tablet tool: the raw event holds the position as a
\* fraction of the range of the device, and libinput scales it to the size
\* it is given.
libinput_get_transformed(position, size) == QMul(position, Q(size))

\* The position of a raw event on the stage, as the cases of
\* process_device_event ask libinput for it: scaled to the extents of the
\* layout the seat has when the event is processed.
stage_x(s, event) ==
  libinput_get_transformed(event.x, meta_viewport_info_get_extents(s.viewports).width)
stage_y(s, event) ==
  libinput_get_transformed(event.y, meta_viewport_info_get_extents(s.viewports).height)

\* meta_viewport_info_get_num_views
meta_viewport_info_get_num_views(viewports) == Len(viewports.views)

\* meta_viewport_info_get_view: view number idx, counted from 0.
meta_viewport_info_get_view(viewports, idx) == viewports.views[idx + 1]

\* META_POINT_IN_RECT
point_in_rect(x, y, rect) ==
  /\ QGe(x, Q(rect.x)) /\ QLt(x, Q(rect.x + rect.width))
  /\ QGe(y, Q(rect.y)) /\ QLt(y, Q(rect.y + rect.height))

\* meta_viewport_info_get_view_at: the first view holding the point, or -1.
meta_viewport_info_get_view_at(viewports, x, y) ==
  LET holding == {i \in DOMAIN viewports.views :
                    point_in_rect(x, y, viewports.views[i])}
  IN IF holding = {} THEN -1
     ELSE (CHOOSE i \in holding : \A j \in holding : i <= j) - 1

\* meta_rectangle_vert_overlap, meta_rectangle_horiz_overlap
vert_overlap(r1, r2) == r1.y < r2.y + r2.height /\ r2.y < r1.y + r1.height
horiz_overlap(r1, r2) == r1.x < r2.x + r2.width /\ r2.x < r1.x + r1.width

\* view_has_neighbor of meta-viewport-info.c
view_has_neighbor(view, neighbor, direction) ==
  CASE direction = "RIGHT" ->
         neighbor.x = view.x + view.width /\ vert_overlap(neighbor, view)
    [] direction = "LEFT" ->
         view.x = neighbor.x + neighbor.width /\ vert_overlap(neighbor, view)
    [] direction = "UP" ->
         view.y = neighbor.y + neighbor.height /\ horiz_overlap(neighbor, view)
    [] direction = "DOWN" ->
         neighbor.y = view.y + view.height /\ horiz_overlap(neighbor, view)
    [] OTHER -> FALSE

\* meta_viewport_info_get_neighbor: the first other view next to view idx in
\* the direction, or -1.
meta_viewport_info_get_neighbor(viewports, idx, direction) ==
  LET next_to == {i \in DOMAIN viewports.views :
                    /\ i # idx + 1
                    /\ view_has_neighbor(viewports.views[idx + 1],
                                         viewports.views[i], direction)}
  IN IF next_to = {} THEN -1
     ELSE (CHOOSE i \in next_to : \A j \in next_to : i <= j) - 1

Vec(x, y) == [x |-> x, y |-> y]
Line(a, b) == [a |-> a, b |-> b]

VSub(a, b) == Vec(QSub(a.x, b.x), QSub(a.y, b.y))

\* meta_vector2_subtract, of vectors of floats.
meta_vector2_subtract(a, b) == Vec(float_sub(a.x, b.x), float_sub(a.y, b.y))

\* meta_vector2_cross_product
cross_product(a, b) == float_sub(float_mul(a.x, b.y), float_mul(a.y, b.x))

\* The end of meta_line2_intersects_with: the segments meet when both t and
\* u are within 0 and 1, at p + t r.
line2_intersection(p, r, t, u) ==
  IF QLt(t, Q(0)) \/ QLt(Q(1), t) \/ QLt(u, Q(0)) \/ QLt(Q(1), u)
  THEN [hit |-> FALSE, at |-> p]
  ELSE [hit |-> TRUE,
        at |-> Vec(float_add(p.x, float_mul(t, r.x)),
                   float_add(p.y, float_mul(t, r.y)))]

\* The middle of meta_line2_intersects_with: parallel segments do not
\* intersect; otherwise t = ((q - p) x s) / (r x s), u = ((p - q) x r) / (s x r).
line2_solve(p, r, q, sv, rxs, sxr) ==
  IF rxs = Q(0) THEN [hit |-> FALSE, at |-> p]
  ELSE line2_intersection(
         p, r,
         float_div(cross_product(meta_vector2_subtract(q, p), sv), rxs),
         float_div(cross_product(meta_vector2_subtract(p, q), r), sxr))

line2_vectors(p, r, q, sv) ==
  line2_solve(p, r, q, sv, cross_product(r, sv), cross_product(sv, r))

\* meta_line2_intersects_with: whether the two segments meet in one point,
\* and the point.
meta_line2_intersects_with(line1, line2) ==
  line2_vectors(line1.a, meta_vector2_subtract(line1.b, line1.a),
                line2.a, meta_vector2_subtract(line2.b, line2.a))

\* meta_pointer_constraint_impl_constrain of a constraint that confines the
\* pointer to a rectangle of whole pixels: the point clamped into it.
confine_axis(v, near, far) ==
  IF QLt(v, Q(near)) THEN Q(near)
  ELSE IF QGe(v, Q(far)) THEN Q(far - 1)
  ELSE v

meta_pointer_constraint_impl_constrain(constraint, x, y) ==
  Vec(confine_axis(x, constraint.x, constraint.x + constraint.width),
      confine_axis(y, constraint.y, constraint.y + constraint.height))

\* A constraint is an object: two constraints of the same region are two
\* objects.  NoConstraint stands for NULL.
NoConstraint ==
  [set |-> FALSE, object |-> 0, x |-> 0, y |-> 0, width |-> 0, height |-> 0]

(***************************************************************************)
(* The pointer (meta-seat-impl.c).  The coordinates of the core pointer    *)
(* device are written together with seat->pointer_x and seat->pointer_y,   *)
(* by meta_seat_impl_constructed and by new_absolute_motion_event, and     *)
(* are read here as the same pair.                                         *)
(***************************************************************************)
INITIAL_POINTER_X == 16
INITIAL_POINTER_Y == 16

\* A clamp of constrain_all_screen_monitors that lets the pointer reach the
\* far edge, one pixel beyond the view.
clamp_to_view_far_edge(rect, x, y) ==
  Vec(IF QLt(x, Q(rect.x)) THEN Q(rect.x)
      ELSE IF QGe(x, Q(rect.x + rect.width)) THEN Q(rect.x + rect.width) ELSE x,
      IF QLt(y, Q(rect.y)) THEN Q(rect.y)
      ELSE IF QGe(y, Q(rect.y + rect.height)) THEN Q(rect.y + rect.height) ELSE y)

\* One axis of the clamp of constrain_all_screen_monitors: below the near
\* edge the value becomes the edge, at or beyond the far edge it becomes the
\* far edge less one.
clamp_axis(v, near, far) ==
  IF QLt(v, Q(near)) THEN Q(near)
  ELSE IF QGe(v, Q(far)) THEN Q(far - 1)
  ELSE v

\* The clamp of constrain_all_screen_monitors to the view the pointer is in.
clamp_to_view(rect, x, y) ==
  Vec(clamp_axis(x, rect.x, rect.x + rect.width),
      clamp_axis(y, rect.y, rect.y + rect.height))

\* The body of the loop of constrain_all_screen_monitors for the view that
\* holds the current position, if there is one.
clamp_to_current_view(viewports, cur_view, x, y) ==
  IF cur_view >= 0
  THEN clamp_to_view(meta_viewport_info_get_view(viewports, cur_view), x, y)
  ELSE Vec(x, y)

\* constrain_all_screen_monitors: the point clamped to the first view that
\* holds the current position; the point itself when no view holds it.
constrain_all_screen_monitors(s, viewports, x, y) ==
  clamp_to_current_view(
    viewports,
    meta_viewport_info_get_view_at(viewports, s.pointer_x, s.pointer_y),
    x, y)

\* A viewport part of meta_seat_impl_constrain_pointer without the test
\* "if we're moving inside a monitor, we're fine".
constrain_to_viewports_untested(s, c) ==
  IF s.viewports.set
  THEN constrain_all_screen_monitors(s, s.viewports, c.x, c.y)
  ELSE c

\* The viewport part of meta_seat_impl_constrain_pointer.
constrain_to_viewports(s, c) ==
  IF s.viewports.set
  THEN IF meta_viewport_info_get_view_at(s.viewports, c.x, c.y) >= 0
       THEN c
       ELSE constrain_all_screen_monitors(s, s.viewports, c.x, c.y)
  ELSE c

\* meta_seat_impl_constrain_pointer: the new position.  The barrier manager
\* holds no barrier and leaves the position alone.
meta_seat_impl_constrain_pointer(s, new_x, new_y) ==
  constrain_to_viewports(
    s,
    IF s.pointer_constraint.set
    THEN meta_pointer_constraint_impl_constrain(s.pointer_constraint,
                                                new_x, new_y)
    ELSE Vec(new_x, new_y))

\* The four edges of a view, as relative_motion_across_outputs builds them.
view_edge(rect, side) ==
  CASE side = "LEFT" ->
         Line(Vec(Q(rect.x), Q(rect.y)), Vec(Q(rect.x), Q(rect.y + rect.height)))
    [] side = "RIGHT" ->
         Line(Vec(Q(rect.x + rect.width), Q(rect.y)),
              Vec(Q(rect.x + rect.width), Q(rect.y + rect.height)))
    [] side = "UP" ->
         Line(Vec(Q(rect.x), Q(rect.y)), Vec(Q(rect.x + rect.width), Q(rect.y)))
    [] OTHER ->
         Line(Vec(Q(rect.x), Q(rect.y + rect.height)),
              Vec(Q(rect.x + rect.width), Q(rect.y + rect.height)))

\* The tests of the motion against the four edges of the view.
edge_tests(motion, view) ==
  [side \in {"LEFT", "RIGHT", "UP", "DOWN"} |->
     meta_line2_intersects_with(motion, view_edge(view, side))]

\* The if-chain of relative_motion_across_outputs: the direction in which
\* the motion leaves the view and the intersection, given the direction of
\* the iteration before and the four edge tests.
crossing(direction, hits) ==
  IF direction # "RIGHT" /\ hits["LEFT"].hit
  THEN [direction |-> "LEFT", at |-> hits["LEFT"].at]
  ELSE IF direction # "LEFT" /\ hits["RIGHT"].hit
  THEN [direction |-> "RIGHT", at |-> hits["RIGHT"].at]
  ELSE IF direction # "DOWN" /\ hits["UP"].hit
  THEN [direction |-> "UP", at |-> hits["UP"].at]
  ELSE IF direction # "UP" /\ hits["DOWN"].hit
  THEN [direction |-> "DOWN", at |-> hits["DOWN"].at]
  ELSE [direction |-> "NONE", at |-> hits["LEFT"].at]

\* A motion segment that takes the delta as it is, whatever the scale.
motion_line_unscaled(x, y, dx, dy, scale) ==
  Line(Vec(x, y), Vec(float_add(x, dx), float_add(y, dy)))

\* The motion segment of one iteration: from (x, y) by the delta left,
\* scaled with the scale of the view.
motion_line(x, y, dx, dy, scale) ==
  Line(Vec(x, y),
       Vec(float_add(x, float_mul(dx, scale)), float_add(y, float_mul(dy, scale))))

\* The loop of relative_motion_across_outputs from one iteration on; l holds
\* the local variables, and the result is the target the loop ends with.
RECURSIVE across_outputs_loop(_, _)

\* The end of one iteration: the loop ends in the view where the motion
\* crosses no edge, and goes on in the neighbor otherwise.
across_outputs_next(viewports, l, motion, c) ==
  IF c.direction = "NONE" THEN motion.b
  ELSE across_outputs_loop(
         viewports,
         [cur_view |-> meta_viewport_info_get_neighbor(viewports, l.cur_view,
                                                       c.direction),
          x |-> c.at.x, y |-> c.at.y,
          dx |-> float_sub(l.dx, float_sub(c.at.x, motion.a.x)),
          dy |-> float_sub(l.dy, float_sub(c.at.y, motion.a.y)),
          direction |-> c.direction,
          target_x |-> motion.b.x, target_y |-> motion.b.y])

across_outputs_edges(viewports, l, view, motion) ==
  across_outputs_next(
    viewports, l, motion,
    crossing(l.direction, edge_tests(motion, view)))

across_outputs_view(viewports, l, view) ==
  across_outputs_edges(viewports, l, view,
                       motion_line(l.x, l.y, l.dx, l.dy, Q(view.scale)))

across_outputs_loop(viewports, l) ==
  IF l.cur_view < 0 THEN Vec(l.target_x, l.target_y)
  ELSE across_outputs_view(viewports, l,
                           meta_viewport_info_get_view(viewports, l.cur_view))

\* A relative_motion_across_outputs that leaves the delta as it is.
relative_motion_across_outputs_raw(viewports, view, cur_x, cur_y, dx, dy) ==
  Vec(dx, dy)

\* target - cur of relative_motion_across_outputs, in float.
float_vector_subtract(a, b) == Vec(float_sub(a.x, b.x), float_sub(a.y, b.y))

\* relative_motion_across_outputs: the delta it leaves in dx_inout, dy_inout.
relative_motion_across_outputs(viewports, view, cur_x, cur_y, dx, dy) ==
  float_vector_subtract(across_outputs_loop(
         viewports,
         [cur_view |-> view, x |-> cur_x, y |-> cur_y,
          dx |-> dx, dy |-> dy, direction |-> "UNSET",
          target_x |-> cur_x, target_y |-> cur_y]),
       Vec(cur_x, cur_y))

\* The local variables the loop of relative_motion_across_outputs tests and
\* steps on; the target is written and never read inside the loop.
loop_state(l) == <<l.cur_view, l.x, l.y, l.dx, l.dy, l.direction>>

\* The end of one iteration of the loop: the local variables after the
\* iteration, with cur_view left as it is and ended set at the break.
across_outputs_iteration_end(viewports, l, motion, c) ==
  IF c.direction = "NONE"
  THEN [l EXCEPT !.target_x = motion.b.x, !.target_y = motion.b.y,
                 !.ended = TRUE]
  ELSE [cur_view |-> meta_viewport_info_get_neighbor(viewports, l.cur_view,
                                                     c.direction),
        x |-> c.at.x, y |-> c.at.y,
        dx |-> float_sub(l.dx, float_sub(c.at.x, motion.a.x)),
        dy |-> float_sub(l.dy, float_sub(c.at.y, motion.a.y)),
        direction |-> c.direction,
        target_x |-> motion.b.x, target_y |-> motion.b.y,
        ended |-> FALSE]

across_outputs_iteration_edges(viewports, l, view, motion) ==
  across_outputs_iteration_end(
    viewports, l, motion,
    crossing(l.direction, edge_tests(motion, view)))

across_outputs_iteration_view(viewports, l, view) ==
  across_outputs_iteration_edges(viewports, l, view,
                                 motion_line(l.x, l.y, l.dx, l.dy,
                                             Q(view.scale)))

\* One iteration of the loop of relative_motion_across_outputs.
across_outputs_iteration(viewports, l) ==
  across_outputs_iteration_view(
    viewports, l, meta_viewport_info_get_view(viewports, l.cur_view))

\* The loop of relative_motion_across_outputs, iteration by iteration, with
\* the loop states it has been in.  The loop is deterministic, so it never
\* ends once it comes back to a state it has been in.
RECURSIVE across_outputs_run(_, _, _)
across_outputs_run(viewports, l, seen) ==
  IF l.ended \/ l.cur_view < 0
  THEN [exits |-> TRUE, iterations |-> Cardinality(seen),
        target |-> Vec(l.target_x, l.target_y)]
  ELSE IF loop_state(l) \in seen
  THEN [exits |-> FALSE, iterations |-> Cardinality(seen),
        target |-> Vec(l.target_x, l.target_y)]
  ELSE across_outputs_run(viewports, across_outputs_iteration(viewports, l),
                          seen \cup {loop_state(l)})

\* The run of relative_motion_across_outputs from its entry.
relative_motion_across_outputs_run(viewports, view, cur_x, cur_y, dx, dy) ==
  across_outputs_run(viewports,
                     [cur_view |-> view, x |-> cur_x, y |-> cur_y,
                      dx |-> dx, dy |-> dy, direction |-> "UNSET",
                      target_x |-> cur_x, target_y |-> cur_y,
                      ended |-> FALSE],
                     {})

\* meta_seat_impl_filter_relative_motion returns: it does not call
\* relative_motion_across_outputs, or the loop of the call ends.
filter_returns_to_view(s, view, x, y, dx, dy, dest_view) ==
  (dest_view >= 0 /\ dest_view # view)
    => relative_motion_across_outputs_run(s.viewports, view, x, y, dx, dy).exits

filter_returns_from_view(s, view, x, y, dx, dy, scale) ==
  view >= 0
    => filter_returns_to_view(
         s, view, x, y, dx, dy,
         meta_viewport_info_get_view_at(s.viewports,
                                        float_add(x, float_mul(dx, scale)),
                                        float_add(y, float_mul(dy, scale))))

filter_returns_with_view(s, view, x, y, dx, dy) ==
  filter_returns_from_view(
    s, view, x, y, dx, dy,
    Q(IF view >= 0 THEN meta_viewport_info_get_view(s.viewports, view).scale
      ELSE 1))

filter_relative_motion_returns(s, x, y, dx, dy) ==
  ~s.stage_views_scaled
    => filter_returns_with_view(
         s,
         IF s.viewports.set
         THEN meta_viewport_info_get_view_at(s.viewports, x, y) ELSE -1,
         x, y, dx, dy)

\* The end of meta_seat_impl_filter_relative_motion: the scaled delta, or
\* the delta across the outputs when the scaled delta ends in another view.
filter_scaled(s, view, x, y, dx, dy, new_dx, new_dy, dest_view) ==
  IF dest_view >= 0 /\ dest_view # view
  THEN relative_motion_across_outputs(s.viewports, view, x, y, dx, dy)
  ELSE Vec(new_dx, new_dy)

filter_in_view(s, view, x, y, dx, dy, new_dx, new_dy) ==
  filter_scaled(s, view, x, y, dx, dy, new_dx, new_dy,
                meta_viewport_info_get_view_at(s.viewports, float_add(x, new_dx),
                                               float_add(y, new_dy)))

filter_from_view(s, view, x, y, dx, dy, scale) ==
  IF view < 0 THEN Vec(dx, dy)
  ELSE filter_in_view(s, view, x, y, dx, dy, float_mul(dx, scale),
                      float_mul(dy, scale))

filter_with_view(s, view, x, y, dx, dy) ==
  filter_from_view(s, view, x, y, dx, dy,
                   Q(meta_viewport_info_get_view(s.viewports, view).scale))

\* meta_seat_impl_filter_relative_motion: the delta it leaves in dx, dy.
meta_seat_impl_filter_relative_motion(s, x, y, dx, dy) ==
  IF s.stage_views_scaled THEN Vec(dx, dy)
  ELSE filter_with_view(
         s,
         IF s.viewports.set
         THEN meta_viewport_info_get_view_at(s.viewports, x, y) ELSE -1,
         x, y, dx, dy)

\* The end of new_absolute_motion_event: the seat with the pointer at c, and
\* the event.  The device maps to the whole stage, so translate_coordinates
\* leaves the event's coordinates alone.
motion_event_at(s, input_device, time_us, c) ==
  [seat |-> [s EXCEPT !.pointer_x = c.x, !.pointer_y = c.y],
   event |-> [type |-> "MOTION", x |-> c.x, y |-> c.y,
              time |-> us2ms(time_us), time_us |-> time_us,
              modifier_state |-> meta_xkb_translate_state(s),
              device |-> CorePointer, source_device |-> input_device]]

\* A new_absolute_motion_event for a tablet that moves the pointer of the
\* seat as well.
tablet_motion_event_moving_pointer(s, input_device, time_us, x, y, axes) ==
  [seat |-> [s EXCEPT !.device_coords[input_device] = Vec(x, y),
                      !.pointer_x = x, !.pointer_y = y],
   event |-> [type |-> "MOTION", x |-> x, y |-> y,
              time |-> us2ms(time_us), time_us |-> time_us,
              modifier_state |-> meta_xkb_translate_state(s),
              axes |-> axes,
              tool |-> s.last_tool[input_device],
              device |-> input_device, source_device |-> input_device]]

\* new_absolute_motion_event for a tablet: the position is not constrained,
\* the event comes from the tablet with its tool and its axes, the tablet
\* takes the coordinates and the pointer of the seat stays.
tablet_motion_event(s, input_device, time_us, x, y, axes) ==
  [seat |-> [s EXCEPT !.device_coords[input_device] = Vec(x, y)],
   event |-> [type |-> "MOTION", x |-> x, y |-> y,
              time |-> us2ms(time_us), time_us |-> time_us,
              modifier_state |-> meta_xkb_translate_state(s),
              axes |-> axes,
              tool |-> s.last_tool[input_device],
              device |-> input_device, source_device |-> input_device]]

\* A new_absolute_motion_event that takes the position as it is given.
new_absolute_motion_event_unconstrained(s, input_device, time_us, x, y) ==
  motion_event_at(s, input_device, time_us, Vec(x, y))

\* new_absolute_motion_event for a device that is not a tablet.
new_absolute_motion_event(s, input_device, time_us, x, y) ==
  motion_event_at(s, input_device, time_us,
                  meta_seat_impl_constrain_pointer(s, x, y))

\* meta_event_native_set_relative_motion, then queue_event.
queue_relative_motion(r, d, dx_unaccel, dy_unaccel) ==
  queue_event(r.seat,
              r.event @@ [dx |-> d.x, dy |-> d.y,
                          dx_unaccel |-> dx_unaccel,
                          dy_unaccel |-> dy_unaccel])

relative_motion_by(s, input_device, time_us, d, dx_unaccel, dy_unaccel) ==
  queue_relative_motion(
    new_absolute_motion_event(s, input_device, time_us,
                              float_add(s.pointer_x, d.x),
                              float_add(s.pointer_y, d.y)),
    d, dx_unaccel, dy_unaccel)

\* meta_seat_impl_notify_relative_motion
meta_seat_impl_notify_relative_motion(s, input_device, time_us, dx, dy, dx_unaccel, dy_unaccel) ==
  relative_motion_by(
    s, input_device, time_us,
    meta_seat_impl_filter_relative_motion(s, s.pointer_x, s.pointer_y, dx, dy),
    dx_unaccel, dy_unaccel)

\* The push of the event new_absolute_motion_event made.
queue_motion(r) == queue_event(r.seat, r.event)

\* meta_seat_impl_notify_absolute_motion, with no axes
meta_seat_impl_notify_absolute_motion(s, input_device, time_us, x, y) ==
  queue_motion(new_absolute_motion_event(s, input_device, time_us, x, y))

\* meta_seat_impl_warp_pointer
meta_seat_impl_warp_pointer(s, x, y) ==
  meta_seat_impl_notify_absolute_motion(s, CorePointer, 0, Q(x), Q(y))

\* meta_seat_impl_set_viewports
meta_seat_impl_set_viewports(s, viewports) == [s EXCEPT !.viewports = viewports]

\* The pointer is in the rectangle of the constraint.
in_constraint(constraint, x, y) ==
  /\ QLe(Q(constraint.x), x) /\ QLt(x, Q(constraint.x + constraint.width))
  /\ QLe(Q(constraint.y), y) /\ QLt(y, Q(constraint.y + constraint.height))

\* The whole pixel of a coordinate that is not negative, as the int
\* arguments of clutter_seat_warp_pointer take it.
whole_pixel(v) == v[1] \div v[2]

\* The warp of ensure_constrained to the point c.
warp_into_constraint(s, c) ==
  meta_seat_impl_warp_pointer(s, whole_pixel(c.x), whole_pixel(c.y))

\* meta_pointer_constraint_impl_ensure_constrained of a constraint that
\* confines the pointer to a rectangle: a pointer outside the rectangle is
\* warped to the closest point inside.
meta_pointer_constraint_impl_ensure_constrained(s, constraint) ==
  IF in_constraint(constraint, s.pointer_x, s.pointer_y) THEN s
  ELSE warp_into_constraint(
         s, meta_pointer_constraint_impl_constrain(constraint, s.pointer_x,
                                                   s.pointer_y))

\* meta_seat_impl_set_pointer_constraint: g_set_object stores the constraint
\* when it is another object, of the same region or not, and a constraint
\* that is not NULL is then asked to bring the pointer into it.
meta_seat_impl_set_pointer_constraint(s, impl) ==
  IF s.pointer_constraint = impl THEN s
  ELSE IF impl.set
  THEN meta_pointer_constraint_impl_ensure_constrained(
         [s EXCEPT !.pointer_constraint = impl], impl)
  ELSE [s EXCEPT !.pointer_constraint = impl]

(***************************************************************************)
(* The translation of libinput events (meta-seat-impl.c).  A raw event is  *)
(* a record of what the libinput getters return for it.                    *)
(***************************************************************************)

\* The LIBINPUT_EVENT_KEYBOARD_KEY case without the seat-wide count check.
process_keyboard_key_unchecked(s, event) ==
  meta_seat_impl_notify_key(s, event.device, event.time_us, event.key,
                            event.key_state, TRUE)

\* The LIBINPUT_EVENT_KEYBOARD_KEY case of process_device_event.
process_keyboard_key(s, event) ==
  IF \/ (event.key_state = 1 /\ event.seat_key_count # 1)
     \/ (event.key_state = 0 /\ event.seat_key_count # 0)
  THEN s
  ELSE meta_seat_impl_notify_key(s, event.device, event.time_us, event.key,
                                 event.key_state, TRUE)

\* The LIBINPUT_EVENT_POINTER_BUTTON case without the seat-wide count check.
process_pointer_button_unchecked(s, event) ==
  meta_seat_impl_notify_button(s, event.device, event.time_us, event.button,
                               event.button_state)

\* The LIBINPUT_EVENT_POINTER_BUTTON case of process_device_event.
process_pointer_button(s, event) ==
  IF \/ (event.button_state = 1 /\ event.seat_button_count # 1)
     \/ (event.button_state = 0 /\ event.seat_button_count # 0)
  THEN s
  ELSE meta_seat_impl_notify_button(s, event.device, event.time_us,
                                    event.button, event.button_state)

\* The LIBINPUT_EVENT_POINTER_AXIS case of process_device_event.
process_pointer_axis(s, event) ==
  LET scroll_source == translate_scroll_source(event.source)
  IN IF scroll_source = "WHEEL"
     THEN notify_discrete_axis(s, event.device, event.time_us, scroll_source,
                               event)
     ELSE notify_continuous_axis(s, event.device, event.time_us, scroll_source,
                                 event)

\* meta_seat_impl_lookup_touch_state: the touch states of the slot, none
\* standing for NULL.  seat->touch_states is the set of the MetaTouchState
\* the hash table holds; a table not yet made holds none.
meta_seat_impl_lookup_touch_state(s, seat_slot) ==
  {touch_state \in s.touch_states : touch_state.seat_slot = seat_slot}

\* g_hash_table_insert: a value of the same key is replaced.
g_hash_table_insert(touch_states, touch_state) ==
  {other \in touch_states : other.seat_slot # touch_state.seat_slot}
    \cup {touch_state}

\* meta_seat_impl_acquire_touch_state, with the coordinates the caller
\* writes into the new state.  The g_assert aborts the process unless the
\* build has G_DISABLE_ASSERT.
meta_seat_impl_acquire_touch_state(s, seat_slot, x, y) ==
  IF ~s.g_disable_assert /\ meta_seat_impl_lookup_touch_state(s, seat_slot) # {}
  THEN [s EXCEPT !.aborted = TRUE]
  ELSE [s EXCEPT !.touch_states =
                    g_hash_table_insert(@, [seat_slot |-> seat_slot,
                                            x |-> x, y |-> y])]

\* A release that leaves the table as it is.
meta_seat_impl_release_touch_state_keeping(s, seat_slot) == s

\* meta_seat_impl_release_touch_state
meta_seat_impl_release_touch_state(s, seat_slot) ==
  [s EXCEPT !.touch_states =
              {touch_state \in @ : touch_state.seat_slot # seat_slot}]

\* meta_seat_impl_notify_touch_event
meta_seat_impl_notify_touch_event(s, input_device, evtype, time_us, slot, x, y) ==
  queue_event(s, [type |-> evtype,
                  time |-> us2ms(time_us), time_us |-> time_us,
                  x |-> x, y |-> y,
                  sequence |-> IF slot + 1 > 1 THEN slot + 1 ELSE 1,
                  modifier_state |->
                    meta_xkb_translate_state(s) \cup
                    (IF evtype \in {"TOUCH_BEGIN", "TOUCH_UPDATE"}
                     THEN {"BUTTON1_MASK"} ELSE {}),
                  device |-> CorePointer, source_device |-> input_device])

\* The touch event of a touch state of the table.
notify_touch_state(s, input_device, evtype, time_us, touch_state) ==
  meta_seat_impl_notify_touch_event(s, input_device, evtype, time_us,
                                    touch_state.seat_slot,
                                    touch_state.x, touch_state.y)

\* The end of the LIBINPUT_EVENT_TOUCH_DOWN case, once the touch state is
\* acquired.
touch_down_acquired(s, event) ==
  IF s.aborted THEN s
  ELSE meta_seat_impl_notify_touch_event(s, event.device, "TOUCH_BEGIN",
                                         event.time_us, event.seat_slot,
                                         stage_x(s, event), stage_y(s, event))

\* The LIBINPUT_EVENT_TOUCH_DOWN case of process_device_event.  libinput
\* transforms the position of the raw event to the extents of the stage.
process_touch_down(s, event) ==
  touch_down_acquired(
    meta_seat_impl_acquire_touch_state(s, event.seat_slot,
                                       stage_x(s, event), stage_y(s, event)),
    event)

\* The end of the LIBINPUT_EVENT_TOUCH_UP and LIBINPUT_EVENT_TOUCH_CANCEL
\* cases, for the touch state found.
touch_ended(s, event, evtype, touch_state) ==
  meta_seat_impl_release_touch_state(
    notify_touch_state(s, event.device, evtype, event.time_us, touch_state),
    event.seat_slot)

\* A LIBINPUT_EVENT_TOUCH_UP case that does not look the slot up and ends
\* a touch at the origin when the slot has no state.
process_touch_up_unchecked(s, event) ==
  touch_ended(s, event, "TOUCH_END",
              [seat_slot |-> event.seat_slot, x |-> Q(0), y |-> Q(0)])

\* The LIBINPUT_EVENT_TOUCH_UP case of process_device_event.
process_touch_up(s, event) ==
  IF meta_seat_impl_lookup_touch_state(s, event.seat_slot) = {} THEN s
  ELSE touch_ended(s, event, "TOUCH_END",
                   CHOOSE touch_state \in
                     meta_seat_impl_lookup_touch_state(s, event.seat_slot) : TRUE)

\* The LIBINPUT_EVENT_TOUCH_CANCEL case of process_device_event.
process_touch_cancel(s, event) ==
  IF meta_seat_impl_lookup_touch_state(s, event.seat_slot) = {} THEN s
  ELSE touch_ended(s, event, "TOUCH_CANCEL",
                   CHOOSE touch_state \in
                     meta_seat_impl_lookup_touch_state(s, event.seat_slot) : TRUE)

\* The LIBINPUT_EVENT_TOUCH_MOTION case of process_device_event: the state
\* found takes the new coordinates.
process_touch_motion(s, event) ==
  IF meta_seat_impl_lookup_touch_state(s, event.seat_slot) = {} THEN s
  ELSE meta_seat_impl_notify_touch_event(
         [s EXCEPT !.touch_states =
                     {IF touch_state.seat_slot = event.seat_slot
                      THEN [touch_state EXCEPT !.x = stage_x(s, event),
                                               !.y = stage_y(s, event)]
                      ELSE touch_state : touch_state \in @}],
         event.device, "TOUCH_UPDATE", event.time_us, event.seat_slot,
         stage_x(s, event), stage_y(s, event))

\* input_device_update_tool; NoTool stands for NULL.
input_device_update_tool(s, input_device, tool) ==
  IF s.last_tool[input_device] # tool
  THEN signal_emit([s EXCEPT !.last_tool[input_device] = tool],
                   "tool-changed", [device |-> input_device, tool |-> tool])
  ELSE s

\* notify_proximity
notify_proximity(s, input_device, time_us, in) ==
  queue_event(s, [type |-> IF in THEN "PROXIMITY_IN" ELSE "PROXIMITY_OUT",
                  time |-> us2ms(time_us), time_us |-> time_us,
                  tool |-> s.last_tool[input_device],
                  device |-> CorePointer, source_device |-> input_device])

\* calculate_bezier_position: the position on the curve of the control
\* points (x1, y1) and (x2, y2).
calculate_bezier_position(pos, y1, y2) ==
  QAdd(QMul(pos, QSub(QAdd(QMul(pos, QSub(Q(1), y2)), y2), QMul(pos, y1))),
       QMul(pos, y1))

\* CLAMP (value, 0, 1)
clamp_unit(value) ==
  IF QLt(Q(1), value) THEN Q(1) ELSE IF QLt(value, Q(0)) THEN Q(0) ELSE value

\* meta_input_device_tool_native_translate_pressure: the pressure clamped
\* to 0 .. 1 on the pressure curve of the tool; the pressure as it is when
\* the tool is NULL.
meta_input_device_tool_native_translate_pressure(tool, pressure) ==
  IF tool = NoTool THEN pressure
  ELSE calculate_bezier_position(clamp_unit(pressure), tool.pressure_curve[2],
                                 tool.pressure_curve[4])

\* The values translate_tablet_axes appends for one axis of the tool of
\* the event, none when the tool has not the axis.
tablet_axis(event, tool, axis) ==
  IF axis \notin event.tool.axes THEN <<>>
  ELSE CASE axis = "distance" -> <<event.distance>>
         [] axis = "pressure" ->
              <<meta_input_device_tool_native_translate_pressure(
                  tool, event.pressure)>>
         [] axis = "tilt" -> <<event.tilt_x, event.tilt_y>>
         [] axis = "rotation" -> <<event.rotation>>
         [] axis = "slider" -> <<event.slider_position>>
         [] axis = "wheel" -> <<event.wheel_delta>>

\* translate_tablet_axes: x and y, and the axes the libinput tool of the
\* event has, in the order of the code; tool is the last tool of the
\* device.
translate_tablet_axes(event, tool) ==
  <<Q(event.axis_x), Q(event.axis_y)>>
    \o tablet_axis(event, tool, "distance")
    \o tablet_axis(event, tool, "pressure")
    \o tablet_axis(event, tool, "tilt")
    \o tablet_axis(event, tool, "rotation")
    \o tablet_axis(event, tool, "slider")
    \o tablet_axis(event, tool, "wheel")

\* notify_absolute_motion of a tablet.
notify_tablet_motion(r) == queue_event(r.seat, r.event)

\* notify_relative_tool_motion: the tablet moves by the delta from its own
\* coordinates; the event carries the delta as the seat filters it at the
\* pointer of the seat, and no unaccelerated delta.
relative_tool_motion_by(s, input_device, time_us, dx, dy, d, axes) ==
  queue_relative_motion(
    tablet_motion_event(s, input_device, time_us,
                        float_add(s.device_coords[input_device].x, dx),
                        float_add(s.device_coords[input_device].y, dy), axes),
    d, Q(0), Q(0))

notify_relative_tool_motion(s, input_device, time_us, dx, dy, axes) ==
  relative_tool_motion_by(
    s, input_device, time_us, dx, dy,
    meta_seat_impl_filter_relative_motion(s, s.pointer_x, s.pointer_y, dx, dy),
    axes)

\* meta_input_device_native_get_mapping_mode
meta_input_device_native_get_mapping_mode(s, device) == s.mapping_mode[device]

\* process_tablet_axis: the tool moves the tablet by a delta when the tablet
\* is in relative mapping mode or the tool is a mouse or a lens, and to the
\* position of the raw event otherwise, which libinput transforms to the
\* extents of the stage.
process_tablet_axis(s, event) ==
  IF \/ meta_input_device_native_get_mapping_mode(s, event.device) = "RELATIVE"
     \/ s.last_tool[event.device].type \in {"MOUSE", "LENS"}
  THEN notify_relative_tool_motion(
         s, event.device, event.time_us, Q(event.dx), Q(event.dy),
         translate_tablet_axes(event, s.last_tool[event.device]))
  ELSE notify_tablet_motion(
         tablet_motion_event(s, event.device, event.time_us,
                             stage_x(s, event), stage_y(s, event),
                             translate_tablet_axes(event, s.last_tool[event.device])))

\* The LIBINPUT_EVENT_TABLET_TOOL_PROXIMITY case of process_device_event.
process_tablet_tool_proximity(s, event) ==
  IF event.proximity_in
  THEN notify_proximity(
         input_device_update_tool(s, event.device, event.tool),
         event.device, event.time_us, TRUE)
  ELSE input_device_update_tool(
         notify_proximity(s, event.device, event.time_us, FALSE),
         event.device, NoTool)

\* The LIBINPUT_EVENT_TABLET_TOOL_BUTTON case of process_device_event.
process_tablet_tool_button(s, event) ==
  meta_seat_impl_notify_button(process_tablet_axis(s, event), event.device,
                               event.time_us, event.button,
                               event.button_state)

\* A LIBINPUT_EVENT_TABLET_TOOL_TIP case that notifies the axes after the
\* button, for the tip down as well.
process_tablet_tool_tip_axes_last(s, event) ==
  process_tablet_axis(
    meta_seat_impl_notify_button(s, event.device, event.time_us, BTN_TOUCH,
                                 event.tip_down),
    event)

\* The LIBINPUT_EVENT_TABLET_TOOL_TIP case of process_device_event: the
\* axes are notified before the tip down and after the tip up.
process_tablet_tool_tip(s, event) ==
  IF event.tip_down # 0
  THEN meta_seat_impl_notify_button(process_tablet_axis(s, event),
                                    event.device, event.time_us, BTN_TOUCH,
                                    event.tip_down)
  ELSE process_tablet_axis(
         meta_seat_impl_notify_button(s, event.device, event.time_us,
                                      BTN_TOUCH, event.tip_down),
         event)

\* The LIBINPUT_EVENT_SWITCH_TOGGLE case of process_device_event.
process_switch_toggle(s, event) ==
  IF event.switch = "TABLET_MODE"
  THEN update_touch_mode([s EXCEPT !.tablet_mode_switch_state =
                                      (event.state = "ON")])
  ELSE s

\* notify_pinch_gesture_event
notify_pinch_gesture_event(s, input_device, phase, time_us, dx, dy, angle_delta, scale, n_fingers) ==
  queue_event(s, [type |-> "TOUCHPAD_PINCH", phase |-> phase,
                  time |-> us2ms(time_us), time_us |-> time_us,
                  x |-> s.pointer_x, y |-> s.pointer_y, dx |-> dx, dy |-> dy,
                  angle_delta |-> angle_delta, scale |-> scale,
                  n_fingers |-> n_fingers,
                  modifier_state |-> meta_xkb_translate_state(s),
                  device |-> CorePointer, source_device |-> input_device])

\* notify_swipe_gesture_event
notify_swipe_gesture_event(s, input_device, phase, time_us, n_fingers, dx, dy) ==
  queue_event(s, [type |-> "TOUCHPAD_SWIPE", phase |-> phase,
                  time |-> us2ms(time_us), time_us |-> time_us,
                  x |-> s.pointer_x, y |-> s.pointer_y, dx |-> dx, dy |-> dy,
                  n_fingers |-> n_fingers,
                  modifier_state |-> meta_xkb_translate_state(s),
                  device |-> CorePointer, source_device |-> input_device])

\* The phase of a gesture that begins or ends.
gesture_phase(event, begin) ==
  IF event.type = begin THEN "BEGIN"
  ELSE IF event.cancelled THEN "CANCEL" ELSE "END"

\* notify_pad_button
notify_pad_button(s, input_device, time_us, button, mode_group, mode, pressed) ==
  queue_event(s, [type |-> IF pressed THEN "PAD_BUTTON_PRESS"
                           ELSE "PAD_BUTTON_RELEASE",
                  time |-> us2ms(time_us), time_us |-> time_us,
                  button |-> button, group |-> mode_group, mode |-> mode,
                  device |-> input_device, source_device |-> input_device])

\* The source of a pad strip or ring: the finger, or unknown.
pad_source(source) == IF source = "FINGER" THEN "FINGER" ELSE "UNKNOWN"

\* notify_pad_strip
notify_pad_strip(s, input_device, time_us, strip_number, strip_source, mode_group, mode, value) ==
  queue_event(s, [type |-> "PAD_STRIP",
                  time |-> us2ms(time_us), time_us |-> time_us,
                  strip_source |-> pad_source(strip_source),
                  strip_number |-> strip_number, value |-> value,
                  group |-> mode_group, mode |-> mode,
                  device |-> input_device, source_device |-> input_device])

\* notify_pad_ring
notify_pad_ring(s, input_device, time_us, ring_number, ring_source, mode_group, mode, angle) ==
  queue_event(s, [type |-> "PAD_RING",
                  time |-> us2ms(time_us), time_us |-> time_us,
                  ring_source |-> pad_source(ring_source),
                  ring_number |-> ring_number, angle |-> angle,
                  group |-> mode_group, mode |-> mode,
                  device |-> input_device, source_device |-> input_device])

\* The gesture and tablet pad cases of process_device_event.
process_gesture_or_pad_event(s, event) ==
  CASE event.type \in {"GESTURE_PINCH_BEGIN", "GESTURE_PINCH_END"} ->
         notify_pinch_gesture_event(
           s, event.device, gesture_phase(event, "GESTURE_PINCH_BEGIN"),
           event.time_us, Q(0), Q(0), Q(0), Q(0), event.finger_count)
    [] event.type = "GESTURE_PINCH_UPDATE" ->
         notify_pinch_gesture_event(
           s, event.device, "UPDATE", event.time_us, Q(event.dx), Q(event.dy),
           Q(event.angle_delta), Q(event.scale), event.finger_count)
    [] event.type \in {"GESTURE_SWIPE_BEGIN", "GESTURE_SWIPE_END"} ->
         notify_swipe_gesture_event(
           s, event.device, gesture_phase(event, "GESTURE_SWIPE_BEGIN"),
           event.time_us, event.finger_count, Q(0), Q(0))
    [] event.type = "GESTURE_SWIPE_UPDATE" ->
         notify_swipe_gesture_event(
           s, event.device, "UPDATE", event.time_us, event.finger_count,
           Q(event.dx), Q(event.dy))
    [] event.type = "TABLET_PAD_BUTTON" ->
         notify_pad_button(s, event.device, event.time_us, event.button,
                           event.group, event.mode, event.state = 1)
    [] event.type = "TABLET_PAD_STRIP" ->
         notify_pad_strip(s, event.device, event.time_us, event.number,
                          event.source, event.group, event.mode,
                          Q(event.position))
    [] event.type = "TABLET_PAD_RING" ->
         notify_pad_ring(s, event.device, event.time_us, event.number,
                         event.source, event.group, event.mode,
                         Q(event.position))
    [] OTHER -> s

\* process_device_event.  For an absolute motion libinput transforms the
\* position of the raw event to the extents of the stage.
process_device_event(s, event) ==
  CASE event.type = "KEYBOARD_KEY" -> process_keyboard_key(s, event)
    [] event.type = "POINTER_MOTION" ->
         meta_seat_impl_notify_relative_motion(
           s, event.device, event.time_us, Q(event.dx), Q(event.dy),
           Q(event.dx_unaccel), Q(event.dy_unaccel))
    [] event.type = "POINTER_MOTION_ABSOLUTE" ->
         meta_seat_impl_notify_absolute_motion(
           s, event.device, event.time_us, stage_x(s, event), stage_y(s, event))
    [] event.type = "POINTER_BUTTON" -> process_pointer_button(s, event)
    [] event.type = "POINTER_AXIS" -> process_pointer_axis(s, event)
    [] event.type = "SWITCH_TOGGLE" -> process_switch_toggle(s, event)
    [] event.type = "TOUCH_DOWN" -> process_touch_down(s, event)
    [] event.type = "TOUCH_UP" -> process_touch_up(s, event)
    [] event.type = "TOUCH_MOTION" -> process_touch_motion(s, event)
    [] event.type = "TOUCH_CANCEL" -> process_touch_cancel(s, event)
    [] event.type = "TABLET_TOOL_AXIS" -> process_tablet_axis(s, event)
    [] event.type = "TABLET_TOOL_PROXIMITY" ->
         process_tablet_tool_proximity(s, event)
    [] event.type = "TABLET_TOOL_BUTTON" -> process_tablet_tool_button(s, event)
    [] event.type = "TABLET_TOOL_TIP" -> process_tablet_tool_tip(s, event)
    [] OTHER -> process_gesture_or_pad_event(s, event)

\* process_event
process_event(s, event) ==
  IF event.type \in {"DEVICE_ADDED", "DEVICE_REMOVED"}
  THEN process_base_event(s, event)
  ELSE process_device_event(s, event)

\* process_events: the loop over the events libinput holds, oldest first;
\* it goes no further once the process has aborted.
RECURSIVE process_events(_, _)
process_events(s, events) ==
  IF events = <<>> \/ s.aborted THEN s
  ELSE process_events(process_event(s, Head(events)), Tail(events))

\* dispatch_libinput: libinput_dispatch, then process_events.
dispatch_libinput(s, events) == process_events(s, events)

\* clutter_events_pending: the Clutter queue holds an event that the stage
\* has not taken yet.
clutter_events_pending(s) == Len(Events(s)) > s.clutter_taken

\* meta_event_dispatch
meta_event_dispatch(s, events) ==
  IF clutter_events_pending(s) THEN s ELSE dispatch_libinput(s, events)

\* A keyboard_repeat that emits without looking at libinput first.
keyboard_repeat_without_dispatch(s, events, time_us) ==
  meta_seat_impl_notify_key(
    [s EXCEPT !.timer_remaining = s.timer_interval],
    s.repeat_device, time_us, s.repeat_key, AUTOREPEAT_VALUE, FALSE)

\* keyboard_repeat, the callback of the repeat timer.  GLib sets the next
\* expiry of the source that fired one interval on; a timer added during
\* the callback has its own expiry, a timer cleared has none.
\* keyboard_repeat_notify is the part after dispatch_libinput: the repeat
\* of the key, unless the dispatch cleared the timer.
keyboard_repeat_notify(s, time_us) ==
  IF s.repeat_timer = 0 THEN s
  ELSE meta_seat_impl_notify_key(s, s.repeat_device, time_us, s.repeat_key,
                                 AUTOREPEAT_VALUE, FALSE)

keyboard_repeat(s, events, time_us) ==
  keyboard_repeat_notify(
    dispatch_libinput([s EXCEPT !.timer_remaining = s.timer_interval], events),
    time_us)

\* meta_seat_impl_set_keyboard_repeat
meta_seat_impl_set_keyboard_repeat(s, repeat, delay, interval) ==
  [s EXCEPT !.repeat = repeat, !.repeat_delay = delay,
            !.repeat_interval = interval]

(***************************************************************************)
(* The seat after meta_seat_impl_init and meta_seat_impl_constructed.      *)
(***************************************************************************)
INITIAL_DEVICE_ID == 2
DEFAULT_REPEAT_DELAY == 250
DEFAULT_REPEAT_INTERVAL == 33

SeatInit ==
  [devices |-> <<>>,
   has_touchscreen |-> FALSE,
   has_tablet_switch |-> FALSE,
   tablet_mode_switch_state |-> FALSE,
   touch_mode |-> FALSE,
   button_count |-> [c \in Codes |-> 0],
   button_state |-> {},
   xkb |-> xkb_state_new,
   layout_idx |-> 0,
   leds |-> [d \in LibinputDevices |-> {}],
   led_updates |-> <<>>,
   repeat |-> TRUE,
   repeat_delay |-> DEFAULT_REPEAT_DELAY,
   repeat_interval |-> DEFAULT_REPEAT_INTERVAL,
   repeat_timer |-> 0,
   repeat_device |-> "none",
   repeat_key |-> 0,
   repeat_count |-> 0,
   timer_interval |-> 0,
   timer_remaining |-> 0,
   accum_scroll_dx |-> 0,
   accum_scroll_dy |-> 0,
   pointer_x |-> Q(INITIAL_POINTER_X),
   pointer_y |-> Q(INITIAL_POINTER_Y),
   viewports |-> NoViewports,
   pointer_constraint |-> NoConstraint,
   stage_views_scaled |-> FALSE,
   device_id_next |-> INITIAL_DEVICE_ID,
   free_device_ids |-> <<>>,
   device_ids |-> EmptyBag,
   touch_states |-> {},
   last_tool |-> [d \in TabletDevices |-> NoTool],
   mapping_mode |-> [d \in TabletDevices |-> "ABSOLUTE"],
   device_coords |-> [d \in TabletDevices |-> Vec(Q(0), Q(0))],
   released |-> FALSE,
   aborted |-> FALSE,
   g_disable_assert |-> FALSE,
   clutter_taken |-> 0,
   emitted |-> <<>>]

(***************************************************************************)
(* libinput: the devices plugged in, the keys and buttons each device      *)
(* holds down, the events it has ready and the events the seat has taken.  *)
(***************************************************************************)
LibinputInit ==
  [plugged |-> {}, known |-> {}, down |-> {}, pending |-> <<>>,
   delivered |-> <<>>, discarded |-> 0, suspended |-> FALSE]

\* The seat-wide count libinput reports with a key or button event: the
\* number of devices of the seat that hold the code down after the event.
seat_count(li, device, code, state) ==
  LET holders == {d \in li.plugged : <<d, code>> \in li.down}
  IN IF state = 1 THEN Cardinality(holders \cup {device})
     ELSE Cardinality(holders \ {device})

\* libinput after the device changes the state of a key or button.
libinput_key(li, device, code, state) ==
  [li EXCEPT !.down = IF state = 1 THEN @ \cup {<<device, code>>}
                      ELSE @ \ {<<device, code>>}]

\* libinput with one more event ready.
libinput_post(li, event) == [li EXCEPT !.pending = Append(@, event)]

\* The devices libinput has open once it has read the hotplug events among
\* the events it reports.
RECURSIVE known_after(_, _)
known_after(known, events) ==
  IF events = <<>> THEN known
  ELSE known_after(IF Head(events).type = "DEVICE_ADDED"
                   THEN known \cup {Head(events).device}
                   ELSE IF Head(events).type = "DEVICE_REMOVED"
                   THEN known \ {Head(events).device}
                   ELSE known,
                   Tail(events))

\* libinput after the seat has taken every ready event.
libinput_drain(li) ==
  [li EXCEPT !.pending = <<>>, !.delivered = @ \o li.pending,
             !.known = known_after(@, li.pending)]

\* The devices of a set in the order libinput lists them.
RECURSIVE DeviceList(_)
DeviceList(devices) ==
  IF devices = {} THEN <<>>
  ELSE LET d == CHOOSE x \in devices : TRUE
       IN <<d>> \o DeviceList(devices \ {d})

RawDeviceEvents(type, list) == [i \in DOMAIN list |-> [type |-> type, device |-> list[i]]]

\* libinput_suspend: every device libinput has open is closed, with a
\* DEVICE_REMOVED event each; what the devices had ready and libinput had
\* not read is lost with the file descriptors.
libinput_suspend(li) ==
  [li EXCEPT !.pending = RawDeviceEvents("DEVICE_REMOVED",
                                         DeviceList(li.known)),
             !.discarded = @ + Len(li.pending),
             !.down = {}]

\* libinput_resume: the devices are found again, a DEVICE_ADDED event each.
libinput_resume(li) ==
  [li EXCEPT !.pending = @ \o RawDeviceEvents("DEVICE_ADDED",
                                              DeviceList(li.plugged))]

\* meta_seat_impl_update_xkb_state that starts from a new xkb state and
\* restores nothing.
meta_seat_impl_update_xkb_state_fresh(s) ==
  meta_seat_impl_sync_leds([s EXCEPT !.xkb = xkb_state_new])

\* meta_seat_impl_update_xkb_state: a new xkb state that keeps the latched
\* and locked modifiers and no depressed key; then the LEDs are synced.
meta_seat_impl_update_xkb_state(s) ==
  meta_seat_impl_sync_leds(
    [s EXCEPT !.xkb = xkb_state_update_mask(
                        xkb_state_new, 0,
                        xkb_state_serialize_mods(s.xkb, "LATCHED"),
                        xkb_state_serialize_mods(s.xkb, "LOCKED"),
                        s.layout_idx)])

\* meta_seat_impl_set_keyboard_map: the keymap takes the new map and the
\* seat a new xkb state for it.  The maps of the runs have the keys, the
\* modifiers and the layouts of the map before.
meta_seat_impl_set_keyboard_map(s) == meta_seat_impl_update_xkb_state(s)

\* meta_seat_impl_set_keyboard_layout_index that keeps the index the xkb
\* state made of it.
meta_seat_impl_set_keyboard_layout_index_effective(s, idx) ==
  [s EXCEPT !.xkb = xkb_state_update_mask(
                      s.xkb,
                      xkb_state_serialize_mods(s.xkb, "DEPRESSED"),
                      xkb_state_serialize_mods(s.xkb, "LATCHED"),
                      xkb_state_serialize_mods(s.xkb, "LOCKED"),
                      idx),
            !.layout_idx = idx % xkb_keymap_num_layouts]

\* meta_seat_impl_set_keyboard_layout_index
meta_seat_impl_set_keyboard_layout_index(s, idx) ==
  [s EXCEPT !.xkb = xkb_state_update_mask(
                      s.xkb,
                      xkb_state_serialize_mods(s.xkb, "DEPRESSED"),
                      xkb_state_serialize_mods(s.xkb, "LATCHED"),
                      xkb_state_serialize_mods(s.xkb, "LOCKED"),
                      idx),
            !.layout_idx = idx]

\* meta_seat_impl_get_keyboard_layout_index
meta_seat_impl_get_keyboard_layout_index(s) == s.layout_idx

\* The locked mask meta_seat_impl_set_keyboard_numlock hands to the state.
numlock_locked_mods(xkb, numlock_state, numlock) ==
  IF numlock_state
  THEN mask_or(xkb_state_serialize_mods(xkb, "LOCKED"), numlock)
  ELSE mask_and_not(xkb_state_serialize_mods(xkb, "LOCKED"), numlock)

\* meta_seat_impl_set_keyboard_numlock that clears with "&= numlock".
meta_seat_impl_set_keyboard_numlock_and(s, numlock_state) ==
  meta_seat_impl_sync_leds(
    [s EXCEPT !.xkb = xkb_state_update_mask(
                        s.xkb,
                        xkb_state_serialize_mods(s.xkb, "DEPRESSED"),
                        xkb_state_serialize_mods(s.xkb, "LATCHED"),
                        IF numlock_state
                        THEN numlock_locked_mods(
                               s.xkb, TRUE, 2 ^ xkb_keymap_mod_get_index("Mod2"))
                        ELSE mod_mask(s.xkb.locked \cap {"Mod2"}, Len(KeymapMods)),
                        xkb_state_serialize_layout(s.xkb))])

\* meta_seat_impl_set_keyboard_numlock
meta_seat_impl_set_keyboard_numlock(s, numlock_state) ==
  meta_seat_impl_sync_leds(
    [s EXCEPT !.xkb = xkb_state_update_mask(
                        s.xkb,
                        xkb_state_serialize_mods(s.xkb, "DEPRESSED"),
                        xkb_state_serialize_mods(s.xkb, "LATCHED"),
                        numlock_locked_mods(
                          s.xkb, numlock_state,
                          2 ^ xkb_keymap_mod_get_index("Mod2")),
                        xkb_state_serialize_layout(s.xkb))])

\* How many ids the free list takes when it has run out.
DEVICE_ID_GROW_STEP == 10

\* The ids from `first` on that the loop of meta_seat_impl_acquire_device_id
\* appends, n of them.
new_device_ids(first, n) == [i \in 1 .. n |-> first + i - 1]

\* meta_seat_impl_acquire_device_id: the seat and the id it returns.
meta_seat_impl_acquire_device_id(s) ==
  LET grown == IF s.free_device_ids = <<>>
               THEN [s EXCEPT !.free_device_ids =
                                new_device_ids(s.device_id_next,
                                               DEVICE_ID_GROW_STEP),
                              !.device_id_next = @ + DEVICE_ID_GROW_STEP]
               ELSE s
  IN [seat |-> [grown EXCEPT !.free_device_ids = Tail(@)],
      id |-> Head(grown.free_device_ids)]

\* compare_ids
compare_ids(a, b) == a - b

\* g_list_insert_sorted with compare_ids: before the first id that is
\* greater.
RECURSIVE g_list_insert_sorted(_, _)
g_list_insert_sorted(list, data) ==
  IF list = <<>> THEN <<data>>
  ELSE IF compare_ids(data, Head(list)) < 0 THEN <<data>> \o list
  ELSE <<Head(list)>> \o g_list_insert_sorted(Tail(list), data)

\* A meta_seat_impl_release_device_id that puts the id at the end of the
\* free list.
meta_seat_impl_release_device_id_appending(s, device_id) ==
  [s EXCEPT !.free_device_ids = Append(@, device_id)]

\* meta_seat_impl_release_device_id, given the id of the device.
meta_seat_impl_release_device_id(s, device_id) ==
  [s EXCEPT !.free_device_ids = g_list_insert_sorted(@, device_id)]

\* meta_seat_impl_release_devices, given what libinput holds after the
\* suspend.
meta_seat_impl_release_devices(s, events) ==
  IF s.released THEN s
  ELSE [process_events(s, events) EXCEPT !.released = TRUE]

\* meta_seat_impl_reclaim_devices, given what libinput holds after the
\* resume.
meta_seat_impl_reclaim_devices(s, events) ==
  IF ~s.released THEN s
  ELSE [process_events(meta_seat_impl_update_xkb_state(s), events)
          EXCEPT !.released = FALSE]

(***************************************************************************)
(* Virtual touch-slot reservation (meta-seat-native.c).                    *)
(***************************************************************************)

\* The lowest value of virtual_touch_slot_base before the bump, 0x100.
VIRTUAL_SLOT_BASE_MIN == 256

\* CLUTTER_VIRTUAL_INPUT_DEVICE_MAX_TOUCH_SLOTS, defined in Clutter's
\* clutter-virtual-input-device.h; the value is the one the specification
\* gives for the per-device maximum.
CLUTTER_VIRTUAL_INPUT_DEVICE_MAX_TOUCH_SLOTS == 256

\* The device types a virtual device can be created with
\* (meta_seat_native_get_supported_virtual_device_types).
VirtualDeviceTypes == {"keyboard", "pointer", "touchscreen"}

\* How many virtual devices a run creates.
MaxVirtualDevices == 4

\* g_hash_table_lookup on reserved_virtual_slots: the value stored with the
\* key, which g_hash_table_add makes the key itself, so the lookup of a
\* reserved base is non-NULL exactly when the base is not 0.
reserved_lookup(reserved, base) == IF base \in reserved THEN base ELSE 0

\* A bump that resets the base on every call and never looks the result up.
bump_always_reset(base, reserved) ==
  VIRTUAL_SLOT_BASE_MIN + CLUTTER_VIRTUAL_INPUT_DEVICE_MAX_TOUCH_SLOTS

\* A bump that looks for the lowest free base from 0x100 upwards.
RECURSIVE lowest_free_from(_, _)
lowest_free_from(base, reserved) ==
  IF reserved_lookup(reserved, base) = 0 THEN base
  ELSE lowest_free_from(base + CLUTTER_VIRTUAL_INPUT_DEVICE_MAX_TOUCH_SLOTS,
                        reserved)

bump_lowest_free(base, reserved) ==
  lowest_free_from(VIRTUAL_SLOT_BASE_MIN, reserved)

\* bump_virtual_touch_slot_base: the value of virtual_touch_slot_base after
\* the loop, which is also the value returned.  The field is a guint; the
\* runs create MaxVirtualDevices devices and stay far below its 2^32 wrap.
RECURSIVE bump_virtual_touch_slot_base(_, _)
bump_virtual_touch_slot_base(base, reserved) ==
  LET floored == IF base < VIRTUAL_SLOT_BASE_MIN
                 THEN VIRTUAL_SLOT_BASE_MIN ELSE base
      bumped  == floored + CLUTTER_VIRTUAL_INPUT_DEVICE_MAX_TOUCH_SLOTS
  IN IF reserved_lookup(reserved, bumped) = 0 THEN bumped
     ELSE bump_virtual_touch_slot_base(bumped, reserved)

\* meta_seat_native_create_virtual_device: the MetaSeatNative after the call.
\* The slot base handed to the new device is the new virtual_touch_slot_base.
meta_seat_native_create_virtual_device(n) ==
  LET slot_base == bump_virtual_touch_slot_base(n.virtual_touch_slot_base,
                                                n.reserved_virtual_slots)
  IN [n EXCEPT !.virtual_touch_slot_base = slot_base,
               !.reserved_virtual_slots = @ \cup {slot_base}]

\* meta_seat_native_release_touch_slots
meta_seat_native_release_touch_slots(n, base_slot) ==
  [n EXCEPT !.reserved_virtual_slots = @ \ {base_slot}]

\* meta_seat_native_init, and the zeroed fields of the new object.
NativeInit ==
  [virtual_touch_slot_base |-> 0,
   reserved_virtual_slots  |-> {},
   released                |-> FALSE,
   warnings                |-> <<>>,
   devices                 |-> <<>>,
   tablet_cursors          |-> {}]

\* clutter_input_device_get_device_mode: the two core devices are logical,
\* the devices made for libinput devices and the virtual devices physical.
clutter_input_device_get_device_mode(device) ==
  IF device \in {CorePointer, CoreKeyboard} THEN "LOGICAL" ELSE "PHYSICAL"

\* clutter_event_get_source_device: the device of the event when the event
\* has no source device.
clutter_event_get_source_device(event) ==
  IF "source_device" \in DOMAIN event THEN event.source_device ELSE event.device

\* g_list_find and g_list_delete_link: the list without the first link that
\* holds the device.
g_list_delete_found(list, device) == SlistRemove(list, device)

\* A meta_seat_native_handle_event_post that leaves the devices removed in
\* the list.
meta_seat_native_handle_event_post_keeping_removed(n, event) ==
  IF event.type = "DEVICE_ADDED"
     /\ clutter_input_device_get_device_mode(
          clutter_event_get_source_device(event)) # "LOGICAL"
  THEN [n EXCEPT !.devices = Prepend(@, clutter_event_get_source_device(event))]
  ELSE n

\* meta_seat_native_handle_event_post: the native seat after the event.
meta_seat_native_handle_event_post(n, event) ==
  CASE event.type = "PROXIMITY_IN" ->
         [n EXCEPT !.tablet_cursors =
                     @ \cup {clutter_event_get_source_device(event)}]
    [] event.type = "PROXIMITY_OUT" ->
         [n EXCEPT !.tablet_cursors =
                     @ \ {clutter_event_get_source_device(event)}]
    [] event.type = "DEVICE_ADDED" ->
         IF clutter_input_device_get_device_mode(
              clutter_event_get_source_device(event)) # "LOGICAL"
         THEN [n EXCEPT !.devices =
                          Prepend(@, clutter_event_get_source_device(event))]
         ELSE n
    [] event.type = "DEVICE_REMOVED" ->
         [n EXCEPT !.devices =
                     g_list_delete_found(@, clutter_event_get_source_device(event))]
    [] OTHER -> n

\* The native seat after Clutter has passed it the events, in order.
RECURSIVE handle_events_post(_, _)
handle_events_post(n, events) ==
  IF events = <<>> THEN n
  ELSE handle_events_post(meta_seat_native_handle_event_post(n, Head(events)),
                          Tail(events))

\* g_warning: the warnings the release and reclaim entry points have logged.
g_warning(x, message) == [x EXCEPT !.native.warnings = Append(@, message)]

\* meta_seat_impl_release_devices with its calls of libinput; x holds the
\* native seat, the seat and libinput.
seat_impl_release_devices(x) ==
  IF x.seat.released THEN g_warning(x, "release")
  ELSE [x EXCEPT
          !.seat = meta_seat_impl_release_devices(
                     x.seat, libinput_suspend(x.libinput).pending),
          !.libinput = [libinput_drain(libinput_suspend(x.libinput))
                          EXCEPT !.suspended = TRUE]]

\* The same without the test of the released flag.
seat_impl_reclaim_devices_unguarded(x) ==
  [x EXCEPT
     !.seat = [process_events(meta_seat_impl_update_xkb_state(x.seat),
                              libinput_resume(x.libinput).pending)
                 EXCEPT !.released = FALSE],
     !.libinput = [libinput_drain(libinput_resume(x.libinput))
                     EXCEPT !.suspended = FALSE]]

\* meta_seat_impl_reclaim_devices with its calls of libinput.
seat_impl_reclaim_devices(x) ==
  IF ~x.seat.released THEN g_warning(x, "reclaim")
  ELSE [x EXCEPT
          !.seat = meta_seat_impl_reclaim_devices(
                     x.seat, libinput_resume(x.libinput).pending),
          !.libinput = [libinput_drain(libinput_resume(x.libinput))
                          EXCEPT !.suspended = FALSE]]

\* meta_seat_native_release_devices
meta_seat_native_release_devices(x) ==
  IF x.native.released THEN g_warning(x, "release")
  ELSE [seat_impl_release_devices(x) EXCEPT !.native.released = TRUE]

\* meta_seat_native_reclaim_devices
meta_seat_native_reclaim_devices(x) ==
  IF ~x.native.released THEN g_warning(x, "reclaim")
  ELSE [seat_impl_reclaim_devices(x) EXCEPT !.native.released = FALSE]

(***************************************************************************)
(* The steps of the main loop and of the world around the seat, shared by  *)
(* the specifications below.                                               *)
(***************************************************************************)

\* How many raw events libinput may hold ready at once.
MaxPending == 2

\* The input source is dispatched: meta_event_dispatch, which does nothing
\* while Clutter still holds events of the previous batch.
EventDispatch ==
  /\ libinput.pending # <<>>
  /\ ~clutter_events_pending(seat)
  /\ seat' = meta_event_dispatch(seat, libinput.pending)
  /\ libinput' = libinput_drain(libinput)
  /\ UNCHANGED <<now, native, vdevs>>

\* The seat once the stage has taken the events of the Clutter queue.
clutter_take(s) == [s EXCEPT !.clutter_taken = Len(Events(s))]

\* The stage takes the events of the Clutter queue.
ClutterTakeEvents ==
  /\ clutter_events_pending(seat)
  /\ seat' = clutter_take(seat)
  /\ UNCHANGED <<libinput, now, native, vdevs>>

\* The seat and libinput once the devices found at startup have been added
\* and Clutter has taken their DEVICE_ADDED events.
BootSeat(devices) ==
  clutter_take(process_events(SeatInit, RawDeviceEvents("DEVICE_ADDED", devices)))

BootLibinput(devices) ==
  [LibinputInit EXCEPT !.plugged = Range(devices),
                       !.known = Range(devices),
                       !.delivered = RawDeviceEvents("DEVICE_ADDED", devices)]

\* The events the seat has put out since the startup of BootSeat.
EventsSinceBoot(s, devices) ==
  SubSeq(Events(s), Len(devices) + 1, Len(Events(s)))

\* The raw events the seat has taken since the startup.
DeliveredSinceBoot(li, devices) ==
  SubSeq(li.delivered, Len(devices) + 1, Len(li.delivered))

\* libinput reports one more raw event.
Post(event) ==
  /\ Len(libinput.pending) < MaxPending
  /\ libinput' = libinput_post(libinput, event)
  /\ UNCHANGED <<seat, now, native, vdevs>>

(***************************************************************************)
(* Specification of the device list and the touch mode: devices come and   *)
(* go, tablet-mode switches toggle, the session releases and reclaims the  *)
(* devices.                                                                *)
(***************************************************************************)
HotplugDevices == {"touchscreen0", "switch0", "convertible0"}

\* How many raw events a run of this specification sees.
MaxDeviceEvents == 4

RawCount ==
  Len(libinput.delivered) + Len(libinput.pending) + libinput.discarded

InitDevices ==
  /\ seat = SeatInit
  /\ libinput = LibinputInit
  /\ now = 0
  /\ native = NativeInit
  /\ vdevs = <<>>

PlugDevice(d) ==
  /\ RawCount < MaxDeviceEvents
  /\ Len(libinput.pending) < MaxPending
  /\ ~libinput.suspended
  /\ d \notin libinput.plugged
  /\ libinput' = libinput_post([libinput EXCEPT !.plugged = @ \cup {d}],
                               [type |-> "DEVICE_ADDED", device |-> d])
  /\ UNCHANGED <<seat, now, native, vdevs>>

UnplugDevice(d) ==
  /\ RawCount < MaxDeviceEvents
  /\ Len(libinput.pending) < MaxPending
  /\ ~libinput.suspended
  /\ d \in libinput.plugged
  /\ libinput' = libinput_post([libinput EXCEPT !.plugged = @ \ {d}],
                               [type |-> "DEVICE_REMOVED", device |-> d])
  /\ UNCHANGED <<seat, now, native, vdevs>>

ToggleTabletMode(d, state) ==
  /\ RawCount < MaxDeviceEvents
  /\ ~libinput.suspended
  /\ d \in libinput.plugged
  /\ device_is_tablet_switch(d)
  /\ Post([type |-> "SWITCH_TOGGLE", device |-> d, switch |-> "TABLET_MODE",
           state |-> state])

ReleaseDevices ==
  /\ RawCount + Cardinality(libinput.plugged) <= MaxDeviceEvents
  /\ ~seat.released
  /\ LET li == libinput_suspend(libinput)
     IN /\ seat' = meta_seat_impl_release_devices(seat, li.pending)
        /\ libinput' = [libinput_drain(li) EXCEPT !.suspended = TRUE]
  /\ UNCHANGED <<now, native, vdevs>>

ReclaimDevices ==
  /\ RawCount + Cardinality(libinput.plugged) <= MaxDeviceEvents
  /\ seat.released
  /\ LET li == libinput_resume(libinput)
     IN /\ seat' = meta_seat_impl_reclaim_devices(seat, li.pending)
        /\ libinput' = [libinput_drain(li) EXCEPT !.suspended = FALSE]
  /\ UNCHANGED <<now, native, vdevs>>

NextDevices ==
  \/ \E d \in HotplugDevices : PlugDevice(d)
  \/ \E d \in HotplugDevices : UnplugDevice(d)
  \/ \E d \in HotplugDevices, state \in {"ON", "OFF"} : ToggleTabletMode(d, state)
  \/ ReleaseDevices
  \/ ReclaimDevices
  \/ EventDispatch
  \/ ClutterTakeEvents

SpecDevices == InitDevices /\ [][NextDevices]_vars

\* The seat after each of the raw events libinput holds ready, in order:
\* the states the seat goes through while it processes them.
RECURSIVE SeatsAfterEach(_, _)
SeatsAfterEach(s, events) ==
  IF events = <<>> THEN {s}
  ELSE {s} \cup SeatsAfterEach(process_event(s, Head(events)), Tail(events))

CountEvents(s, type) ==
  Cardinality({i \in DOMAIN s.emitted :
                 s.emitted[i].kind = "event" /\ s.emitted[i].type = type})

\* C7: after every processed event, whatever devices were added and removed
\* and whatever switches toggled, touch_mode is has_touchscreen and (not
\* has_tablet_switch or tablet_mode_switch_state).
C7_TouchModeFormula ==
  \A s \in SeatsAfterEach(seat, libinput.pending) :
    s.touch_mode = (s.has_touchscreen /\
                    (~s.has_tablet_switch \/ s.tablet_mode_switch_state))

\* C7 witness: a touchscreen and a tablet-mode switch are on the seat, the
\* switch has been turned on and touch mode is on.
C7_Witness ==
  /\ seat.has_touchscreen /\ seat.has_tablet_switch
  /\ seat.tablet_mode_switch_state /\ seat.touch_mode
  /\ \E i \in DOMAIN libinput.delivered :
       libinput.delivered[i].type = "SWITCH_TOGGLE"

\* C8: at every point the device list is as long as the number of
\* DEVICE_ADDED events queued so far minus the number of DEVICE_REMOVED
\* events queued so far.
C8_DeviceCount ==
  \A s \in SeatsAfterEach(seat, libinput.pending) :
    Len(s.devices) = CountEvents(s, "DEVICE_ADDED") - CountEvents(s, "DEVICE_REMOVED")

\* C8 witness: devices were added and one was removed, and one is listed.
C8_Witness ==
  /\ CountEvents(seat, "DEVICE_ADDED") >= 2
  /\ CountEvents(seat, "DEVICE_REMOVED") >= 1
  /\ Len(seat.devices) >= 1

\* What the seat `after` has put out since it was the seat `s`.
OutputsSince(s, after) ==
  SubSeq(after.emitted, Len(s.emitted) + 1, Len(after.emitted))

IsTouchModeSignal(e, touch_mode) ==
  e.kind = "signal" /\ e.name = "touch-mode" /\ e.arg = touch_mode

IsDeviceAdded(e, d) ==
  e.kind = "event" /\ e.type = "DEVICE_ADDED" /\ e.device = d

\* The seat once libinput's DEVICE_ADDED event of the device is processed.
AfterAdded(s, d) == process_event(s, [type |-> "DEVICE_ADDED", device |-> d])

\* The devices that are not on the seat and whose coming changes the touch
\* mode.
TouchModeChangers(s) ==
  {d \in HotplugDevices \ Range(s.devices) :
     AfterAdded(s, d).touch_mode # s.touch_mode}

\* The seat puts out the DEVICE_ADDED event and then the touch-mode signal.
AddedThenTouchMode(outputs, d, touch_mode) ==
  /\ Len(outputs) = 2
  /\ IsDeviceAdded(outputs[1], d)
  /\ IsTouchModeSignal(outputs[2], touch_mode)

\* The seat puts out the touch-mode signal and then the DEVICE_ADDED event.
TouchModeThenAdded(outputs, d, touch_mode) ==
  /\ Len(outputs) = 2
  /\ IsTouchModeSignal(outputs[1], touch_mode)
  /\ IsDeviceAdded(outputs[2], d)

\* C32 as claimed: when a device is added whose presence changes the touch
\* mode, the DEVICE_ADDED event is put out before the touch-mode inference
\* runs, so the touch-mode signal comes after DEVICE_ADDED.
C32_AddedBeforeTouchMode ==
  \A d \in TouchModeChangers(seat) :
    AddedThenTouchMode(OutputsSince(seat, AfterAdded(seat, d)), d,
                       AfterAdded(seat, d).touch_mode)

\* C32: when a device is added whose presence changes the touch mode, the
\* touch-mode inference runs inside evdev_add_device, so the touch-mode
\* signal with the new mode comes first and the DEVICE_ADDED event after
\* it; a device that does not change the touch mode gives DEVICE_ADDED
\* alone.
C32_TouchModeBeforeAdded ==
  /\ \A d \in TouchModeChangers(seat) :
       TouchModeThenAdded(OutputsSince(seat, AfterAdded(seat, d)), d,
                          AfterAdded(seat, d).touch_mode)
  /\ \A d \in (HotplugDevices \ Range(seat.devices)) \ TouchModeChangers(seat) :
       /\ Len(OutputsSince(seat, AfterAdded(seat, d))) = 1
       /\ IsDeviceAdded(OutputsSince(seat, AfterAdded(seat, d))[1], d)

\* C32 witness: the touchscreen has come and turned the touch mode on, then
\* the tablet-mode switch has come and turned it off; each time the signal
\* was put out right before the DEVICE_ADDED event.
C32_Witness ==
  /\ ~seat.touch_mode
  /\ \E i, j \in DOMAIN seat.emitted :
       /\ i + 1 < j /\ j < Len(seat.emitted)
       /\ IsTouchModeSignal(seat.emitted[i], TRUE)
       /\ IsDeviceAdded(seat.emitted[i + 1], "touchscreen0")
       /\ IsTouchModeSignal(seat.emitted[j], FALSE)
       /\ IsDeviceAdded(seat.emitted[j + 1], "switch0")

(***************************************************************************)
(* Specification of scrolling: a touchpad and a wheel mouse send axis      *)
(* events.                                                                 *)
(***************************************************************************)
ScrollDevices == <<"mouse0">>

\* How many axis events a run of this specification sees.
MaxScrollEvents == 4

AxisEvent(source, has_horizontal, has_vertical, horizontal, vertical, horizontal_discrete, vertical_discrete) ==
  [type |-> "POINTER_AXIS", device |-> "mouse0", source |-> source,
   has_horizontal |-> has_horizontal, has_vertical |-> has_vertical,
   horizontal |-> horizontal, vertical |-> vertical,
   horizontal_discrete |-> horizontal_discrete,
   vertical_discrete |-> vertical_discrete]

\* Continuous axis events: finger and continuous scrolls along one or both
\* axes, and their ends.
ContinuousAxisInputs ==
  {AxisEvent("finger", FALSE, TRUE, 0, 4, 0, 0),
   AxisEvent("finger", FALSE, TRUE, 0, 0, 0, 0),
   AxisEvent("finger", FALSE, TRUE, 0, -25, 0, 0),
   AxisEvent("finger", TRUE, TRUE, 12, 4, 0, 0),
   AxisEvent("finger", TRUE, FALSE, -13, 0, 0, 0),
   AxisEvent("finger", TRUE, TRUE, 0, 0, 0, 0),
   AxisEvent("continuous", FALSE, TRUE, 0, 12, 0, 0)}

WheelAxisInputs == {AxisEvent("wheel", FALSE, TRUE, 0, 15, 0, 1)}

\* The axis events libinput reports in the runs.
AxisInputs ==
  {AxisEvent("finger", FALSE, TRUE, 0, 4, 0, 0),
   AxisEvent("finger", FALSE, TRUE, 0, 0, 0, 0),
   AxisEvent("finger", FALSE, TRUE, 0, -25, 0, 0),
   AxisEvent("finger", TRUE, TRUE, 12, 4, 0, 0)} \cup WheelAxisInputs

InitScroll ==
  /\ seat = BootSeat(ScrollDevices)
  /\ libinput = BootLibinput(ScrollDevices)
  /\ now = 0
  /\ native = NativeInit
  /\ vdevs = <<>>

ScrollAxis(event) ==
  /\ Len(DeliveredSinceBoot(libinput, ScrollDevices)) + Len(libinput.pending)
       < MaxScrollEvents
  /\ Post(event @@ [time_us |-> now * 1000])

NextScroll ==
  \/ \E event \in AxisInputs : ScrollAxis(event)
  \/ EventDispatch
  \/ ClutterTakeEvents

SpecScroll == InitScroll /\ [][NextScroll]_vars

\* What a handler put out: the part of the output of `after` that `before`
\* does not have.
Emitted(before, after) ==
  SubSeq(after.emitted, Len(before.emitted) + 1, Len(after.emitted))

IsHorizontalStep(e) == e.direction \in {"LEFT", "RIGHT"}
IsVerticalStep(e) == e.direction \in {"UP", "DOWN"}

\* The arithmetic of one axis: the discrete events are floor(|sum| / 10)
\* emulated events in the direction of the sign of sum, and what the
\* accumulator holds is the signed remainder.
AxisArithmetic(sum, acc_after, steps, positive, negative) ==
  /\ Len(steps) = Abs(sum) \div DISCRETE_SCROLL_STEP
  /\ \A i \in DOMAIN steps :
       /\ steps[i].direction = (IF sum > 0 THEN positive ELSE negative)
       /\ steps[i].emulated
  /\ Abs(acc_after) < DISCRETE_SCROLL_STEP
  /\ sum = (IF sum > 0 THEN 1 ELSE -1) * DISCRETE_SCROLL_STEP * Len(steps)
             + acc_after

\* The smooth event comes first, with a tenth of the raw deltas and not
\* emulated; horizontal steps come before vertical ones and nothing else
\* is queued.
SmoothThenSteps(event, out) ==
  /\ Len(out) >= 1
  /\ out[1].kind = "event" /\ out[1].type = "SCROLL"
  /\ out[1].direction = "SMOOTH" /\ ~out[1].emulated
  /\ out[1].delta_x = Frac(IF event.has_horizontal THEN event.horizontal ELSE 0,
                           DISCRETE_SCROLL_STEP)
  /\ out[1].delta_y = Frac(IF event.has_vertical THEN event.vertical ELSE 0,
                           DISCRETE_SCROLL_STEP)
  /\ Tail(out) = SelectSeq(Tail(out), IsHorizontalStep)
                   \o SelectSeq(Tail(out), IsVerticalStep)

HorizontalFinished(event) == event.has_horizontal /\ event.horizontal = 0
VerticalFinished(event) == event.has_vertical /\ event.vertical = 0

ContinuousScrollArithmetic(s, event, after, out) ==
  /\ SmoothThenSteps(event, out)
  /\ ~HorizontalFinished(event) =>
       AxisArithmetic(s.accum_scroll_dx
                        + (IF event.has_horizontal THEN event.horizontal ELSE 0),
                      after.accum_scroll_dx,
                      SelectSeq(Tail(out), IsHorizontalStep), "RIGHT", "LEFT")
  /\ ~VerticalFinished(event) =>
       AxisArithmetic(s.accum_scroll_dy
                        + (IF event.has_vertical THEN event.vertical ELSE 0),
                      after.accum_scroll_dy,
                      SelectSeq(Tail(out), IsVerticalStep), "DOWN", "UP")

ContinuousScrollOutcome(s, event, after) ==
  ContinuousScrollArithmetic(s, event, after, Emitted(s, after))

\* C5: a continuous scroll event adds its delta to the accumulator of each
\* axis that is not finished; after the smooth event come floor(|acc| / 10)
\* emulated discrete events in the direction of the sign of acc, and the
\* accumulator keeps the signed remainder, below 10 in magnitude, so that
\* acc_before + delta = sign * 10 * n + acc_after.
C5_ContinuousScrollAccumulator ==
  \A event \in ContinuousAxisInputs :
    ContinuousScrollOutcome(seat, event @@ [time_us |-> now * 1000],
                            process_event(seat, event @@ [time_us |-> now * 1000]))

\* C5 witness: an accumulator holds a remainder after discrete events were
\* emitted for an earlier scroll, and another scroll is about to add to it.
C5_Witness ==
  /\ seat.accum_scroll_dy \notin {0, 4, 8}
  /\ \E i \in DOMAIN seat.emitted :
       /\ seat.emitted[i].kind = "event" /\ seat.emitted[i].type = "SCROLL"
       /\ seat.emitted[i].direction = "UP" /\ seat.emitted[i].emulated

FinishedAxis(acc_after, steps, flag, out) ==
  /\ acc_after = 0
  /\ steps = <<>>
  /\ flag \in out[1].finish_flags

FinishedScrollArithmetic(s, event, after, out) ==
  /\ SmoothThenSteps(event, out)
  /\ out[1].finish_flags =
       (IF HorizontalFinished(event) THEN {"FINISHED_HORIZONTAL"} ELSE {})
         \cup (IF VerticalFinished(event) THEN {"FINISHED_VERTICAL"} ELSE {})
  /\ HorizontalFinished(event) =>
       FinishedAxis(after.accum_scroll_dx,
                    SelectSeq(Tail(out), IsHorizontalStep),
                    "FINISHED_HORIZONTAL", out)
  /\ VerticalFinished(event) =>
       FinishedAxis(after.accum_scroll_dy,
                    SelectSeq(Tail(out), IsVerticalStep),
                    "FINISHED_VERTICAL", out)

FinishedScrollOutcome(s, event, after) ==
  FinishedScrollArithmetic(s, event, after, Emitted(s, after))

\* The shape of a scroll event: direction, deltas, finish flags, emulated.
ScrollShape(e) == <<e.direction, e.delta_x, e.delta_y, e.finish_flags, e.emulated>>

ScrollShapes(events) == [i \in DOMAIN events |-> ScrollShape(events[i])]

\* The scenario: three vertical finger deltas of 4, then the value 0.
FingerScrollScenario ==
  <<AxisEvent("finger", FALSE, TRUE, 0, 4, 0, 0),
    AxisEvent("finger", FALSE, TRUE, 0, 4, 0, 0),
    AxisEvent("finger", FALSE, TRUE, 0, 4, 0, 0),
    AxisEvent("finger", FALSE, TRUE, 0, 0, 0, 0)>>

WithoutTime(events) ==
  [i \in DOMAIN events |->
     [f \in DOMAIN events[i] \ {"time_us"} |-> events[i][f]]]

FingerScrollScenarioDone ==
  WithoutTime(DeliveredSinceBoot(libinput, ScrollDevices)) = FingerScrollScenario

\* C6: a continuous scroll event whose value on an axis is 0 carries the
\* finish flag of the axis on its one smooth event, resets the accumulator
\* of the axis to 0 and emits no discrete event for it.  From accumulators
\* (0,0), three vertical deltas of 4 and then the value 0 give three smooth
\* events, one emulated SCROLL_DOWN right after the third, and a smooth
\* event (0,0) with FINISHED_VERTICAL, and leave the accumulator at 0.
C6_FinishedScrollResets ==
  /\ \A event \in ContinuousAxisInputs :
       FinishedScrollOutcome(seat, event @@ [time_us |-> now * 1000],
                             process_event(seat, event @@ [time_us |-> now * 1000]))
  /\ FingerScrollScenarioDone =>
       /\ ScrollShapes(EventsSinceBoot(seat, ScrollDevices)) =
            <<<<"SMOOTH", Frac(0, 1), Frac(4, 10), {}, FALSE>>,
              <<"SMOOTH", Frac(0, 1), Frac(4, 10), {}, FALSE>>,
              <<"SMOOTH", Frac(0, 1), Frac(4, 10), {}, FALSE>>,
              <<"DOWN", Frac(0, 1), Frac(0, 1), {}, TRUE>>,
              <<"SMOOTH", Frac(0, 1), Frac(0, 1), {"FINISHED_VERTICAL"}, FALSE>>>>
       /\ seat.accum_scroll_dy = 0

\* C6 witness: the scenario has run, and the finishing event found a
\* remainder in the accumulator.
C6_Witness ==
  /\ FingerScrollScenarioDone
  /\ seat.accum_scroll_dy = 0
  /\ Len(EventsSinceBoot(seat, ScrollDevices)) = 5

\* The clicks a wheel reports on an axis in one event.
WheelClicks == -2 .. 2

\* The wheel events: every combination of clicks on the two axes; the
\* value of an axis is the angle of its clicks, 15 degrees each.
WheelCombinations ==
  {AxisEvent("wheel", TRUE, TRUE, 15 * cx, 15 * cy, cx, cy) @@ [time_us |-> 0] :
     cx \in WheelClicks, cy \in WheelClicks}

IsDiscreteScroll(e) ==
  /\ e.kind = "event" /\ e.type = "SCROLL"
  /\ e.direction \in {"UP", "DOWN", "LEFT", "RIGHT"}

\* What the claim has a wheel event do: one smooth event, then one
\* discrete event that is not emulated for each click, no abort and the
\* accumulators as before.
WheelOutcome(s, event, after, out) ==
  /\ ~after.aborted
  /\ Len(out) = 1 + Abs(event.horizontal_discrete) + Abs(event.vertical_discrete)
  /\ out[1].kind = "event" /\ out[1].type = "SCROLL"
  /\ out[1].direction = "SMOOTH"
  /\ \A i \in 2 .. Len(out) : IsDiscreteScroll(out[i]) /\ ~out[i].emulated
  /\ after.accum_scroll_dx = s.accum_scroll_dx
  /\ after.accum_scroll_dy = s.accum_scroll_dy

WheelOutcomeOf(s, event) ==
  WheelOutcome(s, event, process_event(s, event),
               Emitted(s, process_event(s, event)))

\* C33: for every wheel event, whatever the clicks on the two axes, the
\* seat queues one smooth scroll event and then exactly one discrete scroll
\* event for each click, not emulated, without aborting and without a
\* change of the accumulators of continuous scrolling; in a build with
\* assertions and in one without.
C33_WheelDiscretePerClick ==
  \A event \in WheelCombinations, build \in BOOLEAN :
    WheelOutcomeOf([seat EXCEPT !.g_disable_assert = build], event)

(***************************************************************************)
(* Specification of keys and buttons: two keyboards and two mice press and *)
(* release keys and buttons, also the same one on both devices.  No time   *)
(* passes.                                                                 *)
(***************************************************************************)
KeyDevices == <<"keyboard0", "keyboard1", "mouse0", "mouse1">>

\* The keys and buttons of the runs, each on the device that has it.
KeyInputs ==
  {<<"keyboard0", KEY_A>>, <<"keyboard1", KEY_A>>, <<"keyboard0", KEY_CAPSLOCK>>}

ButtonInputs ==
  {<<"mouse0", BTN_LEFT>>, <<"mouse1", BTN_LEFT>>, <<"mouse0", BTN_SIDE>>}

\* How many key and button events a run of this specification sees.
MaxKeyEvents == 4

RawKey(device, key, key_state, seat_key_count) ==
  [type |-> "KEYBOARD_KEY", device |-> device, key |-> key,
   key_state |-> key_state, seat_key_count |-> seat_key_count]

RawButton(device, button, button_state, seat_button_count) ==
  [type |-> "POINTER_BUTTON", device |-> device, button |-> button,
   button_state |-> button_state, seat_button_count |-> seat_button_count]

\* What libinput reports when the device changes the state of the key.
libinput_key_event(li, device, key, state, time_us) ==
  RawKey(device, key, state, seat_count(li, device, key, state))
    @@ [time_us |-> time_us]

\* What libinput reports when the device changes the state of the button.
libinput_button_event(li, device, button, state, time_us) ==
  RawButton(device, button, state, seat_count(li, device, button, state))
    @@ [time_us |-> time_us]

InitKeys ==
  /\ seat = BootSeat(KeyDevices)
  /\ libinput = BootLibinput(KeyDevices)
  /\ now = 0
  /\ native = NativeInit
  /\ vdevs = <<>>

\* The device presses the key it has up, or releases the key it holds down.
KeyChange(device, key, state) ==
  /\ Len(libinput.pending) < MaxPending
  /\ (state = 1) = (<<device, key>> \notin libinput.down)
  /\ libinput' = libinput_post(
                   libinput_key(libinput, device, key, state),
                   libinput_key_event(libinput, device, key, state, now * 1000))
  /\ UNCHANGED <<seat, now, native, vdevs>>

ButtonChange(device, button, state) ==
  /\ Len(libinput.pending) < MaxPending
  /\ (state = 1) = (<<device, button>> \notin libinput.down)
  /\ libinput' = libinput_post(
                   libinput_key(libinput, device, button, state),
                   libinput_button_event(libinput, device, button, state,
                                         now * 1000))
  /\ UNCHANGED <<seat, now, native, vdevs>>

KeyEventsSoFar ==
  Len(DeliveredSinceBoot(libinput, KeyDevices)) + Len(libinput.pending)

NextKeys ==
  \/ \E k \in KeyInputs, state \in {0, 1} :
       KeyEventsSoFar < MaxKeyEvents /\ KeyChange(k[1], k[2], state)
  \/ \E b \in ButtonInputs, state \in {0, 1} :
       KeyEventsSoFar < MaxKeyEvents /\ ButtonChange(b[1], b[2], state)
  \/ EventDispatch
  \/ ClutterTakeEvents

SpecKeys == InitKeys /\ [][NextKeys]_vars

\* Whether a key or button event with this state and seat-wide count is a
\* seat-wide change of state.
SeatWideChange(state, count) ==
  (state = 1 /\ count = 1) \/ (state = 0 /\ count = 0)

\* The counts libinput may report with an event.
SeatCounts == 0 .. 3

RawKeyEvents ==
  {RawKey(k[1], k[2], state, count) @@ [time_us |-> now * 1000] :
     k \in KeyInputs, state \in {0, 1}, count \in SeatCounts}

RawButtonEvents ==
  {RawButton(b[1], b[2], state, count) @@ [time_us |-> now * 1000] :
     b \in ButtonInputs, state \in {0, 1}, count \in SeatCounts}

\* The key and button events that are not seat-wide changes.
NotSeatWide ==
  {e \in RawKeyEvents : ~SeatWideChange(e.key_state, e.seat_key_count)} \cup
  {e \in RawButtonEvents : ~SeatWideChange(e.button_state, e.seat_button_count)}

\* The scenario: both mice press the left button, then both release it.
LeftButtonScenario ==
  <<RawButton("mouse0", BTN_LEFT, 1, 1), RawButton("mouse1", BTN_LEFT, 1, 2),
    RawButton("mouse0", BTN_LEFT, 0, 1), RawButton("mouse1", BTN_LEFT, 0, 0)>>

LeftButtonScenarioDone ==
  WithoutTime(DeliveredSinceBoot(libinput, KeyDevices)) = LeftButtonScenario

ButtonShape(e) == <<e.type, e.button>>

ButtonShapes(events) == [i \in DOMAIN events |-> ButtonShape(events[i])]

\* C2: a key or button event that is not a seat-wide change (a press with
\* seat count other than 1, a release with seat count other than 0) puts
\* out nothing and changes nothing in the seat; and the left button pressed
\* with counts 1, 2 and released with counts 1, 0 gives BUTTON_PRESS of
\* button 1 followed by BUTTON_RELEASE of button 1 and nothing else.
C2_SeatWideChangesOnly ==
  /\ \A e \in NotSeatWide : process_event(seat, e) = seat
  /\ LeftButtonScenarioDone =>
       ButtonShapes(EventsSinceBoot(seat, KeyDevices)) =
         <<<<"BUTTON_PRESS", 1>>, <<"BUTTON_RELEASE", 1>>>>

\* C2 witness: the scenario has run and the two events are out.
C2_Witness ==
  /\ LeftButtonScenarioDone
  /\ Len(EventsSinceBoot(seat, KeyDevices)) = 2

(***************************************************************************)
(* Specification of key repeat: a keyboard presses and releases keys while *)
(* time passes.  The repeat timer expires exactly when it is due, and a    *)
(* raw event carries the time at which libinput reports it; the main loop  *)
(* wakes up for it at once, so no time passes while libinput holds events. *)
(***************************************************************************)
RepeatDevices == <<"keyboard0">>

RepeatKeyInputs ==
  {<<"keyboard0", KEY_A>>, <<"keyboard0", KEY_B>>, <<"keyboard0", KEY_CAPSLOCK>>}

\* How many key events a run of this specification sees, how long it lasts
\* (ms), and the step by which time passes when no timer is due before.
MaxRepeatKeyEvents == 3
MaxTime == 350
TickStep == 100

InitRepeat ==
  /\ seat = BootSeat(RepeatDevices)
  /\ libinput = BootLibinput(RepeatDevices)
  /\ now = 0
  /\ native = NativeInit
  /\ vdevs = <<>>

\* The seat after d ms have passed.
time_passes(s, d) ==
  IF s.repeat_timer # 0 THEN [s EXCEPT !.timer_remaining = @ - d] ELSE s

\* Time passes, up to the expiry of the repeat timer when it is set.
Tick(d) ==
  /\ libinput.pending = <<>>
  /\ d > 0
  /\ now + d <= MaxTime
  /\ seat.repeat_timer # 0 => d <= seat.timer_remaining
  /\ now' = now + d
  /\ seat' = time_passes(seat, d)
  /\ UNCHANGED <<libinput, native, vdevs>>

\* The repeat timer expires and the main loop calls keyboard_repeat.
KeyboardRepeat ==
  /\ seat.repeat_timer # 0
  /\ seat.timer_remaining = 0
  /\ seat' = keyboard_repeat(seat, libinput.pending, now * 1000)
  /\ libinput' = libinput_drain(libinput)
  /\ UNCHANGED <<now, native, vdevs>>

RepeatKeyEventsSoFar ==
  Len(DeliveredSinceBoot(libinput, RepeatDevices)) + Len(libinput.pending)

NextRepeat ==
  \/ \E k \in RepeatKeyInputs, state \in {0, 1} :
       RepeatKeyEventsSoFar < MaxRepeatKeyEvents /\ KeyChange(k[1], k[2], state)
  \/ \E d \in {TickStep, seat.timer_remaining} : Tick(d)
  \/ KeyboardRepeat
  \/ EventDispatch
  \/ ClutterTakeEvents

SpecRepeat == InitRepeat /\ [][NextRepeat]_vars

IsKeyEvent(e) == e.kind = "event" /\ e.type \in {"KEY_PRESS", "KEY_RELEASE"}

KeyEvents(s) == SelectSeq(s.emitted, IsKeyEvent)

IsRepeated(e) == "REPEATED" \in e.flags

\* A repeated key event comes the delay after the press it repeats, or the
\* interval after the repeated event before it, for the same key and device.
RepeatFollows(previous, repeated, delay, interval) ==
  /\ previous.type = "KEY_PRESS"
  /\ previous.key = repeated.key
  /\ previous.source_device = repeated.source_device
  /\ repeated.time - previous.time =
       (IF IsRepeated(previous) THEN interval ELSE delay)

RepeatTimingOf(keys, s) ==
  /\ \A i \in DOMAIN keys :
       IsRepeated(keys[i]) =>
         /\ i > 1
         /\ RepeatFollows(keys[i - 1], keys[i], s.repeat_delay, s.repeat_interval)
  /\ keys # <<>> =>
       IF keys[Len(keys)].type = "KEY_RELEASE"
       THEN s.repeat_timer = 0
       ELSE xkb_keymap_key_repeats(keys[Len(keys)].key) =>
              /\ s.repeat_timer # 0
              /\ s.repeat_key = keys[Len(keys)].key
              /\ s.repeat_device = keys[Len(keys)].source_device

\* C3: with repeat enabled, the first repeated KEY_PRESS comes the delay
\* (250 ms) after the press of a repeatable key and every later one the
\* interval (33 ms) after the one before, each for the key and the device
\* of the press, with no other key event in between; the timer stays set
\* while that goes on, and the release, once processed, emits KEY_RELEASE
\* and leaves no timer.
C3_RepeatTiming == RepeatTimingOf(KeyEvents(seat), seat)

\* C3, the case of the scenario: key A was pressed at time 0 and nothing
\* else happened; the repeated events are out at 250 ms and 283 ms.
C3_Witness ==
  /\ Len(DeliveredSinceBoot(libinput, RepeatDevices)) = 1
  /\ Len(KeyEvents(seat)) >= 3
  /\ KeyEvents(seat)[1].time = 0 /\ ~IsRepeated(KeyEvents(seat)[1])
  /\ KeyEvents(seat)[2].time = 250 /\ IsRepeated(KeyEvents(seat)[2])
  /\ KeyEvents(seat)[3].time = 283 /\ IsRepeated(KeyEvents(seat)[3])

\* What the emission of a repeat event leaves alone, and what it puts out:
\* one KEY_PRESS of the latched key with state 2 and the REPEATED flag.
RepeatEmission(before, after, out) ==
  /\ Len(out) = 1
  /\ out[1].kind = "event" /\ out[1].type = "KEY_PRESS"
  /\ out[1].state = AUTOREPEAT_VALUE
  /\ IsRepeated(out[1])
  /\ out[1].key = before.repeat_key
  /\ after.xkb = before.xkb
  /\ after.leds = before.leds
  /\ after.button_count = before.button_count

RepeatEmissionFrom(before, after) ==
  before.repeat_timer # 0 => RepeatEmission(before, after, Emitted(before, after))

\* C4: every key event the repeat timer makes has state 2 and the REPEATED
\* flag, and no other key event has either; emitting it leaves the xkb
\* state, the LEDs and the per-code press counters as they were when the
\* callback had looked at libinput.
C4_RepeatEventFrame ==
  /\ \A i \in DOMAIN KeyEvents(seat) :
       IsRepeated(KeyEvents(seat)[i]) = (KeyEvents(seat)[i].state = AUTOREPEAT_VALUE)
  /\ seat.repeat_timer # 0 =>
       RepeatEmissionFrom(dispatch_libinput(seat, libinput.pending),
                          keyboard_repeat(seat, libinput.pending, now * 1000))

\* C4 witness: a repeated event is out while Caps Lock is locked and its LED
\* is lit, and the timer is set for the next one.
C4_Witness ==
  /\ \E i \in DOMAIN KeyEvents(seat) : IsRepeated(KeyEvents(seat)[i])
  /\ "CAPS_LOCK" \in seat.leds["keyboard0"]
  /\ seat.repeat_timer # 0

\* The seat after libinput's next event is the one given, time_us being now.
AfterRaw(s, event) == process_event(s, event @@ [time_us |-> now * 1000])

\* The seat has no timer, so that no REPEATED event comes until a press
\* sets one.
NoTimer(s) == s.repeat_timer = 0 /\ s.repeat_device = "none"

\* The seat after the key-down of B: the timer of A is gone; a timer is set
\* exactly when B repeats and repeat is enabled, and then it is for B, for
\* the device of the press, and expires the initial delay from now.
AfterKeyDown(s, after, device, key) ==
  /\ (after.repeat_timer # 0) = (xkb_keymap_key_repeats(key) /\ s.repeat)
  /\ after.repeat_timer # 0 =>
       /\ after.repeat_key = key
       /\ after.repeat_device = device
       /\ after.timer_remaining = s.repeat_delay
       /\ after.timer_interval = s.repeat_delay
  /\ after.repeat_timer = 0 => NoTimer(after)

(***************************************************************************)
(* Specification of key repeat on a seat of several keyboards: two         *)
(* keyboards and a virtual keyboard of the compositor press and release    *)
(* the same keys while time passes, so that libinput reports key events    *)
(* that are no change of the seat-wide state of the key and the press      *)
(* counter of a code goes beyond 1.  Time passes from the setting of the   *)
(* repeat timer to its expiry.                                             *)
(***************************************************************************)
RepeatSeatDevices == <<"keyboard0", "keyboard1">>

RepeatSeatKeys == {KEY_A, KEY_B}

\* The input device of a virtual keyboard: libinput does not know it, its
\* key events reach the seat through meta_seat_impl_notify_key.
VirtualKeyboard == "virtual-keyboard0"

\* How many key events of the keyboards and of the virtual keyboard
\* together a run of this specification sees.
MaxRepeatSeatKeys == 3

InitRepeatSeat ==
  /\ seat = BootSeat(RepeatSeatDevices)
  /\ libinput = BootLibinput(RepeatSeatDevices)
  /\ now = 0
  /\ native = NativeInit
  /\ vdevs = <<>>

RepeatSeatKeysSoFar ==
  Len(DeliveredSinceBoot(libinput, RepeatSeatDevices)) + Len(libinput.pending)
    + Len(vdevs)

\* The virtual keyboard holds the key down: its last event of the key is a
\* press.
VirtualHolds(notified, key) ==
  \E i \in DOMAIN notified :
    /\ notified[i].key = key /\ notified[i].state = 1
    /\ \A j \in (i + 1) .. Len(notified) : notified[j].key # key

\* A keyboard presses a key it has up, or releases a key it holds down,
\* with nothing else pending.
SeatKeyChange(device, key, state) ==
  /\ RepeatSeatKeysSoFar < MaxRepeatSeatKeys
  /\ libinput.pending = <<>>
  /\ KeyChange(device, key, state)

\* The virtual keyboard notifies the press of a key it has up or the
\* release of a key it holds down.
SeatVirtualKey(key, state) ==
  /\ RepeatSeatKeysSoFar < MaxRepeatSeatKeys
  /\ libinput.pending = <<>>
  /\ (state = 1) = ~VirtualHolds(vdevs, key)
  /\ seat' = meta_seat_impl_notify_key(seat, VirtualKeyboard, now * 1000,
                                       key, state, TRUE)
  /\ vdevs' = Append(vdevs, [key |-> key, state |-> state])
  /\ UNCHANGED <<libinput, now, native>>

NextRepeatSeat ==
  \/ \E device \in Range(RepeatSeatDevices), key \in RepeatSeatKeys,
        state \in {0, 1} : SeatKeyChange(device, key, state)
  \/ \E key \in RepeatSeatKeys, state \in {0, 1} : SeatVirtualKey(key, state)
  \/ Tick(seat.timer_remaining)
  \/ KeyboardRepeat
  \/ EventDispatch
  \/ ClutterTakeEvents

SpecRepeatSeat == InitRepeatSeat /\ [][NextRepeatSeat]_vars

\* The key events libinput can report next: a keyboard presses a key it
\* has up (state 1) or releases a key it holds down (state 0); the event
\* carries the seat-wide count after the change.
NextKeyEvents(li, state, time_us) ==
  {libinput_key_event(li, p[1], p[2], state, time_us) :
     p \in {q \in Range(RepeatSeatDevices) \X KeyCodes :
              (state = 1) = (q \notin li.down)}}

\* The key event changes the state the key has on the seat: it is the
\* first press of the key on the seat, libinput's devices and the virtual
\* ones together, or the last release of it.
ChangesSeatState(s, event) ==
  IF event.key_state = 1
  THEN event.seat_key_count = 1 /\ s.button_count[event.key] = 0
  ELSE event.seat_key_count = 0 /\ s.button_count[event.key] <= 1

\* The timer of `s` is the timer of `after`, as far from its expiry, and
\* nothing was put out from `s` to `after`.
KeepsTimer(s, after) ==
  /\ after.repeat_timer = s.repeat_timer
  /\ after.repeat_key = s.repeat_key
  /\ after.repeat_device = s.repeat_device
  /\ after.repeat_count = s.repeat_count
  /\ after.timer_remaining = s.timer_remaining
  /\ after.timer_interval = s.timer_interval
  /\ after.emitted = s.emitted

\* The key-up of the latched key cancels the timer.
KeyUpCancels(s, event) == NoTimer(AfterRaw(s, event))

\* The key-down of another key cancels the timer and sets the one of the
\* new key when that key repeats and repeat is enabled.
KeyDownCancels(s, event) ==
  AfterKeyDown(s, AfterRaw(s, event), event.device, event.key)

\* The removal of the device that latched the key cancels the timer.
RemovalCancels(s) ==
  s.repeat_device \in Range(RepeatSeatDevices) =>
    NoTimer(AfterRaw(s, [type |-> "DEVICE_REMOVED", device |-> s.repeat_device]))

\* What C26 says of the seat `s` with a timer set, libinput being `li`:
\* a key-up of the latched key and a key-down of another key that change
\* the seat-wide state of their key cancel the timer, and so does the
\* removal of the latching device; a key-up or key-down that does not
\* change the seat-wide state of its key is dropped and leaves the timer
\* as it is.
CancelsWhenSeatWide(s, li) ==
  /\ \A e \in NextKeyEvents(li, 0, now * 1000) : e.key = s.repeat_key =>
       IF ChangesSeatState(s, e) THEN KeyUpCancels(s, e)
       ELSE KeepsTimer(s, AfterRaw(s, e))
  /\ \A e \in NextKeyEvents(li, 1, now * 1000) : e.key # s.repeat_key =>
       IF ChangesSeatState(s, e) THEN KeyDownCancels(s, e)
       ELSE KeepsTimer(s, AfterRaw(s, e))
  /\ RemovalCancels(s)

\* C26 as amended: while key A is latched for repeat, the key-up of A that
\* is the last release of A on the seat, the key-down of another key B
\* that is the first press of B on the seat and the removal of the device
\* that latched A each cancel the timer of A, so that no further REPEATED
\* event of A comes; after such a key-down of B a new timer exists, for B
\* and with the initial delay, exactly when B repeats and repeat is
\* enabled.  A key-up of A while another device holds A, and a key-down of
\* B while another device holds B, are dropped and leave the timer of A
\* running.
C26_CancelRepeat ==
  (seat.repeat_timer # 0 /\ libinput.pending = <<>>) =>
    \A repeat \in BOOLEAN :
      CancelsWhenSeatWide([seat EXCEPT !.repeat = repeat], libinput)

\* The last key event the seat has put out is a REPEATED press of the key.
LastIsRepeatOf(s, key) ==
  /\ KeyEvents(s) # <<>>
  /\ KeyEvents(s)[Len(KeyEvents(s))].key = key
  /\ IsRepeated(KeyEvents(s)[Len(KeyEvents(s))])

\* The last raw event the seat has taken is a key-down of the key that
\* libinput reported with a seat-wide count of 2.
LastRawIsSecondPress(li, key) ==
  /\ li.delivered # <<>>
  /\ li.delivered[Len(li.delivered)].type = "KEYBOARD_KEY"
  /\ li.delivered[Len(li.delivered)].key = key
  /\ li.delivered[Len(li.delivered)].key_state = 1
  /\ li.delivered[Len(li.delivered)].seat_key_count = 2

\* C26 witness: B was pressed, then A, both by the first keyboard, and A
\* is latched; the second keyboard has pressed B as well, the seat has
\* taken that key-down, and the timer of A has fired after it: the last
\* key event is a REPEATED press of A, later than the key-down of B, and
\* the timer of A is still set.
C26_Witness ==
  /\ LastRawIsSecondPress(libinput, KEY_B)
  /\ libinput.pending = <<>>
  /\ LastIsRepeatOf(seat, KEY_A)
  /\ KeyEvents(seat)[Len(KeyEvents(seat))].time * 1000
       > libinput.delivered[Len(libinput.delivered)].time_us
  /\ seat.repeat_timer # 0 /\ seat.repeat_key = KEY_A

\* What C26 claims of the seat `s` with a timer set: every key-up of the
\* latched key and every key-down of another key cancels the timer.
CancelsAlways(s, li) ==
  /\ \A e \in NextKeyEvents(li, 0, now * 1000) : e.key = s.repeat_key =>
       KeyUpCancels(s, e)
  /\ \A e \in NextKeyEvents(li, 1, now * 1000) : e.key # s.repeat_key =>
       KeyDownCancels(s, e)
  /\ RemovalCancels(s)

\* C26 as claimed: while key A is latched for repeat, every key-up of A,
\* every key-down of another key B and the removal of the device that
\* latched A cancel the timer of A.
C26_CancelRepeatAlways ==
  (seat.repeat_timer # 0 /\ libinput.pending = <<>>) =>
    \A repeat \in BOOLEAN :
      CancelsAlways([seat EXCEPT !.repeat = repeat], libinput)

\* The raw event cancels the timer that is set: the key-up of the latched
\* key, the key-down of another key, the removal of the latching device.
Cancels(s, event) ==
  \/ /\ event.type = "KEYBOARD_KEY"
     /\ \/ event.key = s.repeat_key /\ event.key_state = 0 /\ event.seat_key_count = 0
        \/ event.key # s.repeat_key /\ event.key_state = 1 /\ event.seat_key_count = 1
  \/ event.type = "DEVICE_REMOVED" /\ event.device = s.repeat_device

\* A REPEATED press of the key comes after a release of the key only with a
\* press of the key that is no repeat between them.
NoRepeatAfterRelease(keys) ==
  \A i, j \in DOMAIN keys :
    (/\ i < j
     /\ keys[i].type = "KEY_RELEASE"
     /\ keys[j].type = "KEY_PRESS" /\ IsRepeated(keys[j])
     /\ keys[j].key = keys[i].key)
    => \E m \in (i + 1) .. (j - 1) :
         keys[m].type = "KEY_PRESS" /\ ~IsRepeated(keys[m]) /\ keys[m].key = keys[i].key

\* C27: when an event that cancels the timer is pending in the event source
\* as the timer fires, it is processed first and that firing puts out no
\* REPEATED event; and in the output no REPEATED KEY_PRESS of a key follows
\* the KEY_RELEASE of that key before the next press of it.
C27_NoRaceOnFiring ==
  /\ (/\ seat.repeat_timer # 0 /\ seat.timer_remaining = 0
      /\ \E i \in DOMAIN libinput.pending : Cancels(seat, libinput.pending[i]))
     => \A e \in Range(Emitted(seat, keyboard_repeat(seat, libinput.pending,
                                                     now * 1000))) :
          e.kind = "event" /\ e.type = "KEY_PRESS" => ~IsRepeated(e)
  /\ NoRepeatAfterRelease(KeyEvents(seat))

\* The paths that drain the event source translate none of the raw events
\* that are ready: the dispatch of the source leaves the seat as it is, the
\* firing of the repeat timer does what it does with no raw event ready,
\* and the release of the devices queues nothing.
NothingTranslated(s, li, time_us) ==
  /\ meta_event_dispatch(s, li.pending) = s
  /\ (s.repeat_timer # 0 /\ s.timer_remaining = 0) =>
       keyboard_repeat(s, li.pending, time_us) = keyboard_repeat(s, <<>>, time_us)
  /\ Emitted(s, meta_seat_impl_release_devices(s, libinput_suspend(li).pending))
       = <<>>

\* C35: the seat queues no events of a new batch of raw events while
\* events of the batch before are pending in the queue of Clutter: on each
\* path that drains the event source, the dispatch of its descriptor, the
\* firing of the repeat timer and the release of the devices, raw events
\* are translated only when no event queued before is pending.
C35_NoBatchWhilePending ==
  (clutter_events_pending(seat) /\ libinput.pending # <<>>)
    => NothingTranslated(seat, libinput, now * 1000)

\* On the dispatch of the descriptor alone the events of the batch before
\* keep the raw events out.
DispatchWaitsForClutter ==
  clutter_events_pending(seat) => meta_event_dispatch(seat, libinput.pending) = seat

(***************************************************************************)
(* Specification of the repeat setting: the runs of the key repeat, in     *)
(* which the compositor also turns the repeat off and on.                  *)
(***************************************************************************)

\* meta_seat_native_set_keyboard_repeat: the compositor turns the repeat on
\* or off and leaves the delay and the interval as they are.
SetKeyboardRepeat(repeat) ==
  /\ seat.repeat # repeat
  /\ seat' = meta_seat_impl_set_keyboard_repeat(seat, repeat, seat.repeat_delay,
                                                seat.repeat_interval)
  /\ UNCHANGED <<libinput, now, native, vdevs>>

NextRepeatSetting ==
  \/ NextRepeat
  \/ \E repeat \in BOOLEAN : SetKeyboardRepeat(repeat)

SpecRepeatSetting == InitRepeat /\ [][NextRepeatSetting]_vars

\* The events hold a key event with the REPEATED flag.
HasRepeated(events) ==
  \E i \in DOMAIN events : IsKeyEvent(events[i]) /\ IsRepeated(events[i])

\* C40: after meta_seat_impl_set_keyboard_repeat has turned the repeat off
\* while a repeat timer is pending, no further REPEATED key event is put
\* out for the latched key: the firing of the timer puts out none.
C40_NoRepeatAfterDisable ==
  (seat.repeat_timer # 0 /\ ~seat.repeat)
    => ~HasRepeated(Emitted(seat, keyboard_repeat(seat, libinput.pending,
                                                  now * 1000)))

\* With the repeat off and nothing ready in libinput the firing of the
\* timer puts out one event and leaves no timer.
DisabledRepeatEndsAtFiring ==
  (seat.repeat_timer # 0 /\ ~seat.repeat)
    => /\ Len(Emitted(seat, keyboard_repeat(seat, <<>>, now * 1000))) = 1
       /\ NoTimer(keyboard_repeat(seat, <<>>, now * 1000))

(***************************************************************************)
(* Specification of the pointer: a mouse moves by deltas, an absolute      *)
(* pointing device reports positions, the compositor warps the pointer and *)
(* changes the viewport layout and the pointer constraint.                 *)
(***************************************************************************)
PointerDevices == <<"mouse0">>

\* The layouts the compositor configures: one view; a view with a neighbor
\* of scale 2 set off downwards, which leaves two corners of the extents
\* outside of both; and one view too small to hold the initial position.
SingleView == [set |-> TRUE, views |-> <<View(0, 0, 24, 24, 1)>>]
TwoViews ==
  [set |-> TRUE, views |-> <<View(0, 0, 24, 24, 1), View(24, 8, 24, 24, 2)>>]
SmallView == [set |-> TRUE, views |-> <<View(0, 0, 8, 8, 1)>>]

Layouts == {SingleView, TwoViews, SmallView}

\* A constraint that confines the pointer to a region.
Confinement ==
  [set |-> TRUE, object |-> 1, x |-> 4, y |-> 4, width |-> 8, height |-> 8]

\* Constraints of a region that no view of the layouts meets; the
\* compositor makes a new object when it activates the region again.
Outside(object) ==
  [set |-> TRUE, object |-> object, x |-> 30, y |-> 0, width |-> 8, height |-> 8]

Constraints == {NoConstraint, Confinement, Outside(2), Outside(3)}

RelativeDeltas == {<<16, 0>>, <<-16, 0>>, <<8, 16>>}
\* The positions the absolute device reports, in eighths of its range.
AbsolutePositions == {<<1, 1>>, <<5, 1>>}
WarpTargets == {<<2, 2>>, <<40, 40>>}

\* How many motions and warps a run of this specification sees.
MaxMotions == 2

RawMotion(device, dx, dy) ==
  [type |-> "POINTER_MOTION", device |-> device, time_us |-> 0,
   dx |-> dx, dy |-> dy, dx_unaccel |-> dx, dy_unaccel |-> dy]

\* An absolute motion at x and y eighths of the range of the device.
RawMotionAbsolute(device, x, y) ==
  [type |-> "POINTER_MOTION_ABSOLUTE", device |-> device, time_us |-> 0,
   x |-> Frac(x, 8), y |-> Frac(y, 8)]

\* The raw motion events libinput can report to the seat.
RawMotions(s) ==
  {RawMotion("mouse0", d[1], d[2]) : d \in RelativeDeltas}
    \cup {RawMotionAbsolute("mouse0", p[1], p[2]) :
            p \in {q \in AbsolutePositions : s.viewports.set}}

\* The motions and the warps the runs take; the properties below look at
\* every motion of RawMotions and every warp of WarpTargets in each state.
PostedMotions(s) ==
  {event \in RawMotions(s) :
     \/ event.type = "POINTER_MOTION" /\ event.dx > 0
     \/ event.type = "POINTER_MOTION_ABSOLUTE" /\ event.x = Frac(5, 8)}

PostedWarps == {w \in WarpTargets : w[1] > 2}

InitPointer ==
  /\ \E scaled \in BOOLEAN :
       seat = [BootSeat(PointerDevices) EXCEPT !.stage_views_scaled = scaled]
  /\ libinput = BootLibinput(PointerDevices)
  /\ now = 0
  /\ native = NativeInit
  /\ vdevs = <<>>

IsMotion(e) == e.kind = "event" /\ e.type = "MOTION"

MotionsSoFar == Len(SelectSeq(seat.emitted, IsMotion)) + Len(libinput.pending)

\* The pointing device reports a motion.
PointerMotion(event) ==
  /\ MotionsSoFar < MaxMotions
  /\ Post(event)

\* The compositor warps the pointer.
WarpPointer(x, y) ==
  /\ MotionsSoFar < MaxMotions
  /\ seat' = meta_seat_impl_warp_pointer(seat, x, y)
  /\ UNCHANGED <<libinput, now, native, vdevs>>

\* The compositor configures a viewport layout.
SetViewports(viewports) ==
  /\ seat.viewports # viewports
  /\ seat' = meta_seat_impl_set_viewports(seat, viewports)
  /\ UNCHANGED <<libinput, now, native, vdevs>>

\* The compositor sets or clears the pointer constraint.
SetPointerConstraint(impl) ==
  /\ seat.pointer_constraint # impl
  /\ \/ MotionsSoFar < MaxMotions
     \/ meta_seat_impl_set_pointer_constraint(seat, impl).emitted = seat.emitted
  /\ seat' = meta_seat_impl_set_pointer_constraint(seat, impl)
  /\ UNCHANGED <<libinput, now, native, vdevs>>

NextPointer ==
  \/ \E event \in PostedMotions(seat) : PointerMotion(event)
  \/ \E w \in PostedWarps : WarpPointer(w[1], w[2])
  \/ \E viewports \in Layouts : SetViewports(viewports)
  \/ \E impl \in Constraints : SetPointerConstraint(impl)
  \/ EventDispatch
  \/ ClutterTakeEvents

SpecPointer == InitPointer /\ [][NextPointer]_vars

\* The pointer of the seat is inside a view of the layout of the seat.
InView(s) ==
  meta_viewport_info_get_view_at(s.viewports, s.pointer_x, s.pointer_y) >= 0

\* After any one motion event or warp the pointer is inside a view.
InViewAfterMotion(s) ==
  /\ \A event \in RawMotions(s) : InView(process_event(s, event))
  /\ \A w \in WarpTargets : InView(meta_seat_impl_warp_pointer(s, w[1], w[2]))

\* C1 as amended: with a viewport layout configured and the pointer inside
\* one of its views, the pointer is inside a view of the layout after every
\* relative motion, absolute motion and warp.  (set_viewports itself leaves
\* the pointer where it is, inside the new layout or not.)
C1_PointerStaysInsideViews ==
  (seat.viewports.set /\ InView(seat)) => InViewAfterMotion(seat)

\* C1 witness: under the layout of one view, a motion to the right that
\* would leave the view has been clamped to its last column.
C1_Witness ==
  /\ seat.viewports = SingleView
  /\ seat.pointer_x = Q(23)
  /\ InView(seat)
  /\ \E i \in DOMAIN seat.emitted :
       /\ IsMotion(seat.emitted[i])
       /\ seat.emitted[i].x = Q(23)
       /\ seat.emitted[i].source_device = "mouse0"

\* C1 as claimed: whenever a viewport layout is configured, the pointer is
\* inside at least one of its views after every processed motion or warp,
\* whatever set_viewports calls came before.
C1_PointerInsideViews == seat.viewports.set => InViewAfterMotion(seat)

\* The positions a motion asks for, before the constrain chain: on each
\* axis left of, inside, within the last pixel of, and beyond the views of
\* the layouts.
CandidateCoords == {Q(-3), Q(10), <<47, 2>>, Q(24), Q(50)}

\* The position barriers and the pointer constraint leave.
Candidate(s, x, y) ==
  IF s.pointer_constraint.set
  THEN meta_pointer_constraint_impl_constrain(s.pointer_constraint, x, y)
  ELSE Vec(x, y)

ViewAt(s, c) == meta_viewport_info_get_view_at(s.viewports, c.x, c.y)

\* The view that holds the pointer.
CurrentView(s) ==
  meta_viewport_info_get_view(
    s.viewports,
    meta_viewport_info_get_view_at(s.viewports, s.pointer_x, s.pointer_y))

\* v clamped to the closed interval [low, high].
ClampClosed(v, low, high) ==
  IF QLt(v, Q(low)) THEN Q(low) ELSE IF QLt(Q(high), v) THEN Q(high) ELSE v

\* One axis of the monitor clamp: a value in [near, far) stays, a value
\* below near becomes near, a value at or beyond far becomes far - 1.
ClampedIntoView(v, final, near, far) ==
  /\ QGe(final, Q(near)) /\ QLt(final, Q(far))
  /\ (QGe(v, Q(near)) /\ QLt(v, Q(far))) => final = v
  /\ QLt(v, Q(near)) => final = Q(near)
  /\ QGe(v, Q(far)) => final = Q(far - 1)

\* What C28 says of the candidate c and the final position, the clamp of an
\* axis being given; rect is the view that holds the pointer when one does.
MonitorClamp(c, in_view, final, pointer_in_view, rect, AxisClamped(_, _, _, _)) ==
  IF in_view THEN final = c
  ELSE pointer_in_view =>
         /\ AxisClamped(c.x, final.x, rect.x, rect.x + rect.width)
         /\ AxisClamped(c.y, final.y, rect.y, rect.y + rect.height)

MonitorClampIn(s, pointer_in_view, rect, AxisClamped(_, _, _, _)) ==
  \A x \in CandidateCoords, y \in CandidateCoords :
    MonitorClamp(Candidate(s, x, y), ViewAt(s, Candidate(s, x, y)) >= 0,
                 meta_seat_impl_constrain_pointer(s, x, y),
                 pointer_in_view, rect, AxisClamped)

MonitorClampOfAll(s, AxisClamped(_, _, _, _)) ==
  s.viewports.set =>
    MonitorClampIn(s, InView(s), IF InView(s) THEN CurrentView(s) ELSE {},
                   AxisClamped)

\* The axis clamp as claimed: the candidate clamped to [near, far - 1].
ClampedToLastPixel(v, final, near, far) == final = ClampClosed(v, near, far - 1)

\* C28 as claimed: with a viewport layout set, a candidate position (after
\* barriers and pointer constraint) in no view and the pointer in view
\* [left,right) x [top,bottom), the final position is the candidate clamped
\* per axis to [left, right-1] x [top, bottom-1]; a candidate inside some
\* view is left unchanged.
C28_ClampToLastPixel == MonitorClampOfAll(seat, ClampedToLastPixel)

\* C28: with a viewport layout set, a candidate position in no view and the
\* pointer in view [left,right) x [top,bottom), the final position has, per
\* axis, the coordinate of the candidate when that is in [left,right), left
\* when it is below left and right-1 when it is at or beyond right (so a
\* coordinate between right-1 and right stays); a candidate inside some
\* view is left unchanged.
C28_MonitorClamp == MonitorClampOfAll(seat, ClampedIntoView)

\* C28 witness: under the layout of one view a motion down and to the
\* right that asked for a position beyond the view on both axes has been
\* clamped to the last pixel of the view on both.
C28_Witness ==
  /\ seat.viewports = SingleView
  /\ seat.pointer_x = Q(23) /\ seat.pointer_y = Q(23)
  /\ \E i \in DOMAIN seat.emitted :
       /\ IsMotion(seat.emitted[i])
       /\ seat.emitted[i].x = Q(23) /\ seat.emitted[i].y = Q(23)
       /\ seat.emitted[i].source_device = "mouse0"

(***************************************************************************)
(* Specification of the press counters: callers inside the compositor      *)
(* (virtual input devices) call meta_seat_impl_notify_key and              *)
(* meta_seat_impl_notify_button themselves, with no seat-wide count of     *)
(* libinput in front of the counter.                                       *)
(***************************************************************************)
CounterDevices == <<"keyboard0", "mouse0">>

\* How many presses of the button without a release a run counts, and how
\* many events a run puts out; the presses of the key are counted as far as
\* the counter goes.
MaxButtonPresses == 2
MaxCounterEvents == 4

InitCounter ==
  /\ seat = BootSeat(CounterDevices)
  /\ libinput = BootLibinput(CounterDevices)
  /\ now = 0
  /\ native = NativeInit
  /\ vdevs = <<>>

CounterEventsSoFar == Len(EventsSinceBoot(seat, CounterDevices))

\* A caller notifies a press or a release of the key.
NotifyKey(key, state) ==
  /\ CounterEventsSoFar < MaxCounterEvents
  /\ seat' = meta_seat_impl_notify_key(seat, "keyboard0", now * 1000,
                                       key, state, TRUE)
  /\ UNCHANGED <<libinput, now, native, vdevs>>

\* A caller notifies a press or a release of the button.
NotifyButton(button, state) ==
  /\ CounterEventsSoFar < MaxCounterEvents
  /\ state = 1 => seat.button_count[button] < MaxButtonPresses
  /\ seat' = meta_seat_impl_notify_button(seat, "mouse0", now * 1000,
                                          button, state)
  /\ UNCHANGED <<libinput, now, native, vdevs>>

NextCounter ==
  \/ \E state \in {0, 1} : NotifyKey(KEY_A, state)
  \/ \E state \in {0, 1} : NotifyButton(BTN_LEFT, state)
  \/ ClutterTakeEvents

SpecCounter == InitCounter /\ [][NextCounter]_vars

\* The counter of the key after one more press of it is notified.
CountAfterPress(s, key) ==
  meta_seat_impl_notify_key(s, "keyboard0", 0, key, 1, TRUE).button_count[key]

\* C11: every press counter is at least 0 and stays within 0..255 without
\* wrapping around: one more press never takes a counter down, so that 256
\* or more presses in a row without a release do not bring it back to 0.
C11_CountersDoNotWrap ==
  \A k \in Codes :
    /\ seat.button_count[k] \in 0 .. (BUTTON_COUNT_MODULUS - 1)
    /\ k \in KeyCodes =>
         /\ CountAfterPress(seat, k) >= seat.button_count[k]
         /\ CountAfterPress(seat, k) > 0

\* How long the sequences of notifications are that C12 looks at.
MaxScript == 4

\* The sequences of presses (1) and releases (0) of one code in which every
\* press is matched by a later release and no prefix has more releases
\* than presses.
RECURSIVE Depth(_, _)
Depth(script, n) ==
  IF n = 0 THEN 0
  ELSE Depth(script, n - 1) + (IF script[n] = 1 THEN 1 ELSE -1)

Balanced(script) ==
  /\ \A n \in 1 .. Len(script) : Depth(script, n) >= 0
  /\ Depth(script, Len(script)) = 0

BalancedScripts ==
  {script \in UNION {[1 .. n -> {0, 1}] : n \in 0 .. MaxScript} : Balanced(script)}

\* One notification of the code: a key through notify_key, a button through
\* notify_button.
notify_code(s, code, state) ==
  IF code \in KeyCodes
  THEN meta_seat_impl_notify_key(s, "keyboard0", 0, code, state, TRUE)
  ELSE meta_seat_impl_notify_button(s, "mouse0", 0, code, state)

RECURSIVE notify_all(_, _, _)
notify_all(s, code, script) ==
  IF script = <<>> THEN s
  ELSE notify_all(notify_code(s, code, Head(script)), code, Tail(script))

\* C12: from a counter at 0, after any sequence of press and release
\* notifications of the code in which every press is matched by a later
\* release and no prefix has more releases than presses, the counter of the
\* code is 0 again.
C12_BalancedReturnsToZero ==
  \A k \in {KEY_A, BTN_LEFT, BTN_SIDE} :
    seat.button_count[k] = 0 =>
      \A script \in BalancedScripts :
        notify_all(seat, k, script).button_count[k] = 0

\* C12 witness: the run itself has pressed and released the key and the
\* button, the events of both are out and the counters are at 0.
C12_Witness ==
  /\ seat.button_count[KEY_A] = 0
  /\ seat.button_count[BTN_LEFT] = 0
  /\ \E i, j \in DOMAIN seat.emitted :
       /\ i < j
       /\ seat.emitted[i].kind = "event" /\ seat.emitted[i].type = "KEY_PRESS"
       /\ seat.emitted[j].kind = "event" /\ seat.emitted[j].type = "KEY_RELEASE"
  /\ \E i \in DOMAIN seat.emitted :
       seat.emitted[i].kind = "event" /\ seat.emitted[i].type = "BUTTON_RELEASE"

\* C23: a release notification for a code whose counter is already 0 is
\* dropped: no KEY_RELEASE or BUTTON_RELEASE event is put out for it and the
\* counter stays 0.
C23_ReleaseAtZeroDropped ==
  \A k \in {KEY_A, BTN_LEFT} :
    seat.button_count[k] = 0 =>
      /\ Events(notify_code(seat, k, 0)) = Events(seat)
      /\ notify_code(seat, k, 0).button_count[k] = 0

\* The code of a press or release event of a key or a button.
CodeOf(e) == IF e.type \in {"KEY_PRESS", "KEY_RELEASE"} THEN e.key ELSE e.event_code

IsPress(e) ==
  \/ e.type = "BUTTON_PRESS"
  \/ e.type = "KEY_PRESS" /\ "REPEATED" \notin e.flags

IsRelease(e) == e.type \in {"KEY_RELEASE", "BUTTON_RELEASE"}

\* C24: the output never holds two BUTTON_PRESS events, or two KEY_PRESS
\* events that are not repeats, of one code without a release event of that
\* code between them, a press that takes the counter above 1 being dropped.
C24_NoSecondPress ==
  \A i, j \in DOMAIN Events(seat) :
    (/\ i < j
     /\ IsPress(Events(seat)[i]) /\ IsPress(Events(seat)[j])
     /\ CodeOf(Events(seat)[i]) = CodeOf(Events(seat)[j]))
    => \E m \in (i + 1) .. (j - 1) :
         /\ IsRelease(Events(seat)[m])
         /\ CodeOf(Events(seat)[m]) = CodeOf(Events(seat)[i])

(***************************************************************************)
(* Specification of relative motion across outputs: two views side by      *)
(* side, the left of scale 1 and the right of scale 2; the compositor      *)
(* warps the pointer and changes the layout, the mouse moves to the right. *)
(***************************************************************************)
OutputDevices == <<"mouse0">>

\* The layout of the cross-output scenario, a smaller one of the same shape,
\* one whose right view is narrow, one whose left view is 50 px wide and
\* one whose right view lies 50 px lower than the left.
ScenarioViews ==
  [set |-> TRUE,
   views |-> <<View(0, 0, 1000, 1000, 1), View(1000, 0, 1000, 1000, 2)>>]
SmallViews ==
  [set |-> TRUE, views |-> <<View(0, 0, 200, 100, 1), View(200, 0, 300, 100, 2)>>]
NarrowViews ==
  [set |-> TRUE, views |-> <<View(0, 0, 200, 100, 1), View(200, 0, 80, 100, 2)>>]

EdgeViews ==
  [set |-> TRUE, views |-> <<View(0, 0, 50, 100, 1), View(50, 0, 300, 100, 2)>>]

LoweredViews ==
  [set |-> TRUE, views |-> <<View(0, 0, 200, 100, 1), View(200, 50, 300, 100, 2)>>]

OutputLayouts ==
  {ScenarioViews, SmallViews, NarrowViews, EdgeViews, LoweredViews}

OutputWarps == {<<950, 500>>, <<150, 50>>, <<150, 0>>, <<0, 50>>}
OutputDeltas == {<<200, 0>>, <<100, 0>>}

\* How many motions and warps a run of this specification sees.
MaxOutputMotions == 3

InitOutputs ==
  /\ \E scaled \in BOOLEAN :
       seat = [meta_seat_impl_set_viewports(BootSeat(OutputDevices),
                                            ScenarioViews)
                 EXCEPT !.stage_views_scaled = scaled]
  /\ libinput = BootLibinput(OutputDevices)
  /\ now = 0
  /\ native = NativeInit
  /\ vdevs = <<>>

OutputMotion(dx, dy) ==
  /\ MotionsSoFar < MaxOutputMotions
  /\ Post(RawMotion("mouse0", dx, dy))

OutputWarp(x, y) ==
  /\ MotionsSoFar < MaxOutputMotions
  /\ seat' = meta_seat_impl_warp_pointer(seat, x, y)
  /\ UNCHANGED <<libinput, now, native, vdevs>>

NextOutputs ==
  \/ \E d \in OutputDeltas : OutputMotion(d[1], d[2])
  \/ \E w \in OutputWarps : OutputWarp(w[1], w[2])
  \/ \E viewports \in OutputLayouts : SetViewports(viewports)
  \/ EventDispatch
  \/ ClutterTakeEvents

SpecOutputs == InitOutputs /\ [][NextOutputs]_vars

\* The seat is at (x, y) under the layout of the scenario.
AtInScenario(s, x, y) ==
  s.viewports = ScenarioViews /\ s.pointer_x = Q(x) /\ s.pointer_y = Q(y)

\* The seat has put out one more event than before, a MOTION to (x, y)
\* that carries the relative motion (dx, dy), and has its pointer there.
OneMotion(before, after, x, y, dx, dy) ==
  /\ Len(after.emitted) = Len(before.emitted) + 1
  /\ IsMotion(after.emitted[Len(after.emitted)])
  /\ after.emitted[Len(after.emitted)].x = Q(x)
  /\ after.emitted[Len(after.emitted)].y = Q(y)
  /\ after.emitted[Len(after.emitted)].dx = Q(dx)
  /\ after.emitted[Len(after.emitted)].dy = Q(dy)
  /\ after.pointer_x = Q(x)
  /\ after.pointer_y = Q(y)

\* C15 as amended: in the layout of the scenario with the pointer at
\* (950, 500), the raw relative motion (200, 0) yields one MOTION event;
\* with stage views not scaled the 150 units left at the boundary count
\* double, the pointer ends at (1300, 500) and the event carries (350, 0);
\* with scaled stage views the pointer ends at (1150, 500) and the event
\* carries (200, 0).
C15_CrossOutputScenario ==
  AtInScenario(seat, 950, 500) =>
    IF seat.stage_views_scaled
    THEN OneMotion(seat, process_event(seat, RawMotion("mouse0", 200, 0)),
                   1150, 500, 200, 0)
    ELSE OneMotion(seat, process_event(seat, RawMotion("mouse0", 200, 0)),
                   1300, 500, 350, 0)

\* The last two events the seat has put out are a MOTION at (x0, y0) and a
\* MOTION of the mouse that carries the relative motion (dx, 0).
MovedFrom(s, x0, y0, dx) ==
  /\ Len(s.emitted) >= 2
  /\ IsMotion(s.emitted[Len(s.emitted) - 1])
  /\ s.emitted[Len(s.emitted) - 1].x = Q(x0)
  /\ s.emitted[Len(s.emitted) - 1].y = Q(y0)
  /\ IsMotion(s.emitted[Len(s.emitted)])
  /\ s.emitted[Len(s.emitted)].source_device = "mouse0"
  /\ s.emitted[Len(s.emitted)].dx = Q(dx)

\* C15 witness: the mouse has moved the pointer from (950, 500) over the
\* boundary to (1300, 500), with stage views not scaled.
C15_Witness ==
  /\ AtInScenario(seat, 1300, 500)
  /\ ~seat.stage_views_scaled
  /\ MovedFrom(seat, 950, 500, 350)

\* C15 as claimed: the motion (200, 0) from (950, 500) yields one MOTION
\* event at (1100, 500) that carries the relative motion (150, 0).
C15_CrossOutputAsClaimed ==
  AtInScenario(seat, 950, 500) =>
    OneMotion(seat, process_event(seat, RawMotion("mouse0", 200, 0)),
              1100, 500, 150, 0)

\* The layout has two views side by side, the left of scale 1 and the
\* right of scale 2, and the pointer is 50 px left of their boundary in a
\* row both views have.
LeftOfBoundary(s) ==
  /\ s.viewports \in OutputLayouts
  /\ s.pointer_x = Q(s.viewports.views[2].x - 50)
  /\ meta_viewport_info_get_view_at(s.viewports, s.pointer_x, s.pointer_y) = 0
  /\ meta_viewport_info_get_view_at(s.viewports, Q(s.viewports.views[2].x),
                                    s.pointer_y) = 1

\* The pointer of `after` is 100 px right of the boundary, in the row of
\* `before`, inside the right view.
RightOfBoundary(before, after) ==
  /\ after.pointer_x = Q(before.viewports.views[2].x + 100)
  /\ after.pointer_y = before.pointer_y
  /\ meta_viewport_info_get_view_at(after.viewports, after.pointer_x,
                                    after.pointer_y) = 1

\* The pointer of `after` is `px` px right of the left edge of the left
\* view, in the row of `before`.
RightOfLeftEdge(before, after, px) ==
  /\ after.pointer_x = Q(before.viewports.views[1].x + px)
  /\ after.pointer_y = before.pointer_y

\* C16 as amended: with stage views not scaled, a left view wider than
\* 50 px and a right view wider than 100 px, the raw relative motion
\* (100, 0) from 50 px left of the boundary ends 100 px right of the
\* boundary, in the same row, inside the right view.  From the left edge
\* of a left view that is 50 px wide the same motion is taken unscaled and
\* ends 100 px right of that edge.
C16_RemainderScaled ==
  (/\ LeftOfBoundary(seat)
   /\ ~seat.stage_views_scaled
   /\ seat.viewports.views[2].width > 100)
    => IF seat.viewports.views[1].width > 50
       THEN RightOfBoundary(seat, process_event(seat, RawMotion("mouse0", 100, 0)))
       ELSE RightOfLeftEdge(seat, process_event(seat, RawMotion("mouse0", 100, 0)),
                            100)

\* C16 witness: in the small layout the mouse has moved the pointer from
\* (150, 50) to (300, 50); the event carries the relative motion (150, 0).
C16_Witness ==
  /\ seat.viewports = SmallViews
  /\ ~seat.stage_views_scaled
  /\ seat.pointer_x = Q(300) /\ seat.pointer_y = Q(50)
  /\ MovedFrom(seat, 150, 50, 150)

\* C16 as claimed: for every two such views the motion ends 100 px right
\* of the boundary inside the right view.
C16_RemainderScaledAlways ==
  LeftOfBoundary(seat)
    => RightOfBoundary(seat, process_event(seat, RawMotion("mouse0", 100, 0)))

(***************************************************************************)
(* Specification of the touch states: a touchscreen reports touches in     *)
(* two seat slots, in any order, also downs for a slot that is down and    *)
(* ups, motions and cancels for a slot that is not.                        *)
(***************************************************************************)
TouchDevices == <<"touchscreen0">>
TouchSlots == {0, 1}

\* How many raw touch events a run of this specification sees.
MaxTouchEvents == 4

\* A touch at x and y eighths of the range of the touchscreen.
RawTouch(type, seat_slot, x, y) ==
  [type |-> type, device |-> "touchscreen0", time_us |-> 0,
   seat_slot |-> seat_slot, x |-> Frac(x, 8), y |-> Frac(y, 8)]

\* The raw touch events libinput can report for a slot; an up and a cancel
\* have no position.
RawTouchEvents(seat_slot) ==
  {RawTouch("TOUCH_DOWN", seat_slot, 4, 4),
   RawTouch("TOUCH_MOTION", seat_slot, 6, 6),
   RawTouch("TOUCH_UP", seat_slot, 0, 0),
   RawTouch("TOUCH_CANCEL", seat_slot, 0, 0)}

\* The raw touch events the runs take; the properties below look at the
\* events of every slot in each state.
PostedTouchEvents ==
  RawTouchEvents(0) \cup {RawTouch("TOUCH_DOWN", 1, 4, 4),
                          RawTouch("TOUCH_UP", 1, 0, 0)}

\* The build has g_assert or, with G_DISABLE_ASSERT, has not.
InitTouch ==
  /\ \E disabled \in BOOLEAN :
       seat = [meta_seat_impl_set_viewports(BootSeat(TouchDevices), SingleView)
                 EXCEPT !.g_disable_assert = disabled]
  /\ libinput = BootLibinput(TouchDevices)
  /\ now = 0
  /\ native = NativeInit
  /\ vdevs = <<>>

\* The touchscreen reports a touch event, while the process runs.
TouchEvent(event) ==
  /\ ~seat.aborted
  /\ Len(DeliveredSinceBoot(libinput, TouchDevices)) + Len(libinput.pending)
       < MaxTouchEvents
  /\ Post(event)

NextTouch ==
  \/ \E event \in PostedTouchEvents : TouchEvent(event)
  \/ EventDispatch
  \/ ClutterTakeEvents

SpecTouch == InitTouch /\ [][NextTouch]_vars

\* The slots that have a touch state.
SlotsOf(touch_states) == {touch_state.seat_slot : touch_state \in touch_states}

\* C17: a TOUCH_DOWN for a slot that has a touch state is a no-op that
\* aborts nothing: the table keeps the state as it was and the seat stays
\* as it was.
C17_DuplicateDownIsNoOp ==
  \A seat_slot \in SlotsOf(seat.touch_states) :
    /\ ~process_event(seat, RawTouch("TOUCH_DOWN", seat_slot, 6, 6)).aborted
    /\ process_event(seat, RawTouch("TOUCH_DOWN", seat_slot, 6, 6)).touch_states
         = seat.touch_states
    /\ process_event(seat, RawTouch("TOUCH_DOWN", seat_slot, 6, 6)) = seat

\* The events of a slot that has no touch state find none to work on.
StaleTouchEvents(s) ==
  UNION {{RawTouch("TOUCH_UP", seat_slot, 0, 0),
          RawTouch("TOUCH_CANCEL", seat_slot, 0, 0),
          RawTouch("TOUCH_MOTION", seat_slot, 6, 6)} :
           seat_slot \in TouchSlots \ SlotsOf(s.touch_states)}

\* C18: a TOUCH_UP, TOUCH_MOTION or TOUCH_CANCEL for a slot without a touch
\* state leaves the whole seat as it is: no event, no abort, the same
\* table.
C18_StaleSlotIgnored ==
  \A event \in StaleTouchEvents(seat) : process_event(seat, event) = seat

\* C18 witness: the seat has taken a down for slot 1 and an up, a motion and
\* a cancel for slot 0, which never was down; it has put out the one
\* TOUCH_BEGIN, holds the one touch state and runs.
C18_Witness ==
  /\ Len(DeliveredSinceBoot(libinput, TouchDevices)) = 4
  /\ \A i \in DOMAIN DeliveredSinceBoot(libinput, TouchDevices) :
       DeliveredSinceBoot(libinput, TouchDevices)[i].type = "TOUCH_DOWN"
         <=> DeliveredSinceBoot(libinput, TouchDevices)[i].seat_slot = 1
  /\ {"TOUCH_UP", "TOUCH_MOTION", "TOUCH_CANCEL"} \subseteq
       {DeliveredSinceBoot(libinput, TouchDevices)[i].type :
          i \in DOMAIN DeliveredSinceBoot(libinput, TouchDevices)}
  /\ Len(EventsSinceBoot(seat, TouchDevices)) = 1
  /\ EventsSinceBoot(seat, TouchDevices)[1].type = "TOUCH_BEGIN"
  /\ SlotsOf(seat.touch_states) = {1}
  /\ ~seat.aborted

\* The slots that are down after the raw events: a down puts the slot in,
\* an up and a cancel take it out.
RECURSIVE SlotsDownAfter(_, _)
SlotsDownAfter(slots, events) ==
  IF events = <<>> THEN slots
  ELSE SlotsDownAfter(
         IF Head(events).type = "TOUCH_DOWN"
         THEN slots \cup {Head(events).seat_slot}
         ELSE IF Head(events).type \in {"TOUCH_UP", "TOUCH_CANCEL"}
         THEN slots \ {Head(events).seat_slot}
         ELSE slots,
         Tail(events))

\* C19: as long as the process runs, the slots that have a touch state are
\* the slots that had a TOUCH_DOWN processed and no TOUCH_UP or
\* TOUCH_CANCEL since, and each of them has one touch state.
C19_TouchStatesAreSlotsDown ==
  ~seat.aborted =>
    /\ SlotsOf(seat.touch_states)
         = SlotsDownAfter({}, DeliveredSinceBoot(libinput, TouchDevices))
    /\ \A a \in seat.touch_states, b \in seat.touch_states :
         a.seat_slot = b.seat_slot => a = b

\* C19 witness: slot 0 went down and up and is down again, slot 1 went down:
\* both have a touch state.
C19_Witness ==
  /\ SlotsOf(seat.touch_states) = {0, 1}
  /\ Cardinality(seat.touch_states) = 2
  /\ \E i \in DOMAIN DeliveredSinceBoot(libinput, TouchDevices) :
       /\ DeliveredSinceBoot(libinput, TouchDevices)[i].type = "TOUCH_UP"
       /\ DeliveredSinceBoot(libinput, TouchDevices)[i].seat_slot = 0
  /\ ~seat.aborted

(***************************************************************************)
(* Specification of the tablet: a pen comes into the proximity of the      *)
(* tablet and leaves it, moves, and touches the tablet with its tip, in    *)
(* any order.                                                              *)
(***************************************************************************)
SpecTabletDevices == <<"tablet0">>

\* How many raw tablet events a run of this specification sees.
MaxTabletEvents == 5

\* An event of a tool at x and y eighths of the range of the tablet, with
\* what libinput reports of the tool and for each axis a tool can have.
RawTool(type, x, y, tool) ==
  [type |-> type, device |-> "tablet0", time_us |-> 0,
   x |-> Frac(x, 8), y |-> Frac(y, 8), axis_x |-> x, axis_y |-> y,
   tool |-> tool, distance |-> Frac(1, 4), pressure |-> Frac(1, 2),
   tilt_x |-> Q(3), tilt_y |-> Q(-3), rotation |-> Q(90),
   slider_position |-> Frac(1, 8), wheel_delta |-> Q(15)]

\* An event of the pen.
RawTablet(type, x, y) == RawTool(type, x, y, Pen)

RawProximity(in, x, y) ==
  RawTablet("TABLET_TOOL_PROXIMITY", x, y) @@ [proximity_in |-> in]

RawTip(tip_down, x, y) ==
  RawTablet("TABLET_TOOL_TIP", x, y) @@ [tip_down |-> tip_down]

RawToolButton(button, button_state, x, y) ==
  RawTablet("TABLET_TOOL_BUTTON", x, y)
    @@ [button |-> button, button_state |-> button_state]

\* The raw events of the tablet scenario: the pen comes in, moves, touches
\* down, lifts and leaves.
TabletScenario ==
  <<RawProximity(TRUE, 4, 4), RawTablet("TABLET_TOOL_AXIS", 4, 4),
    RawTip(1, 4, 4), RawTip(0, 4, 4), RawProximity(FALSE, 4, 4)>>

TabletEvents == Range(TabletScenario)

InitTablet ==
  /\ seat = meta_seat_impl_set_viewports(BootSeat(SpecTabletDevices), SingleView)
  /\ libinput = BootLibinput(SpecTabletDevices)
  /\ now = 0
  /\ native = NativeInit
  /\ vdevs = <<>>

\* The tablet reports an event.
TabletEvent(event) ==
  /\ Len(DeliveredSinceBoot(libinput, SpecTabletDevices))
       + Len(libinput.pending) < MaxTabletEvents
  /\ Post(event)

\* The pen's button changes.
TabletButton(state) ==
  /\ (state = 1) = (<<"tablet0", BTN_STYLUS>> \notin libinput.down)
  /\ Len(DeliveredSinceBoot(libinput, SpecTabletDevices))
       + Len(libinput.pending) < MaxTabletEvents
  /\ Len(libinput.pending) < MaxPending
  /\ libinput' = libinput_post(
                   libinput_key(libinput, "tablet0", BTN_STYLUS, state),
                   RawToolButton(BTN_STYLUS, state, 4, 4))
  /\ UNCHANGED <<seat, now, native, vdevs>>

NextTablet ==
  \/ \E event \in TabletEvents : TabletEvent(event)
  \/ \E state \in {0, 1} : TabletButton(state)
  \/ EventDispatch
  \/ ClutterTakeEvents

SpecTablet == InitTablet /\ [][NextTablet]_vars

\* What an output of the seat is, for the order of the outputs: the name of
\* a signal or the type of an event, with the tool it carries and, for a
\* button event, the code of the button.
OutputShape(e) ==
  IF e.kind = "signal" THEN <<e.name, e.arg.tool>>
  ELSE IF e.type \in {"BUTTON_PRESS", "BUTTON_RELEASE"}
  THEN <<e.type, e.tool, e.event_code>>
  ELSE <<e.type, e.tool>>

\* The outputs the seat `after` has made since it was the seat `before`.
OutputShapes(before, after) ==
  [i \in 1 .. (Len(after.emitted) - Len(before.emitted)) |->
     OutputShape(after.emitted[Len(before.emitted) + i])]

TabletScenarioOutputs ==
  <<<<"tool-changed", Pen>>, <<"PROXIMITY_IN", Pen>>,
    <<"MOTION", Pen>>, <<"MOTION", Pen>>,
    <<"BUTTON_PRESS", Pen, BTN_TOUCH>>, <<"BUTTON_RELEASE", Pen, BTN_TOUCH>>,
    <<"MOTION", Pen>>, <<"PROXIMITY_OUT", Pen>>,
    <<"tool-changed", NoTool>>>>

\* C20: with no tool in proximity and the tip up, the raw events PROXIMITY
\* in, AXIS, TIP down, TIP up, PROXIMITY out make the seat put out, in this
\* order, tool-changed with the tool, PROXIMITY_IN, MOTION, MOTION,
\* BUTTON_PRESS of BTN_TOUCH, BUTTON_RELEASE of BTN_TOUCH, MOTION,
\* PROXIMITY_OUT with the tool, tool-changed with no tool.
C20_TabletScenarioOrder ==
  (seat.last_tool["tablet0"] = NoTool /\ seat.button_count[BTN_TOUCH] = 0)
    => OutputShapes(seat, process_events(seat, TabletScenario))
         = TabletScenarioOutputs

\* C20 witness: the seat has taken the five raw events of the scenario in
\* several dispatches and has put out the nine outputs; no tool is in
\* proximity any more.
C20_Witness ==
  /\ DeliveredSinceBoot(libinput, SpecTabletDevices) = TabletScenario
  /\ OutputShapes(BootSeat(SpecTabletDevices), seat) = TabletScenarioOutputs
  /\ seat.last_tool["tablet0"] = NoTool
  /\ seat.device_coords["tablet0"] = Vec(Q(12), Q(12))

(***************************************************************************)
(* Specification of the motions of a tablet and a mouse on one seat: a     *)
(* pen or a puck comes into the proximity of the tablet, the tablet and    *)
(* the mouse report motions.                                               *)
(***************************************************************************)
TabletMotionDevices == <<"mouse0", "tablet0">>

\* How many raw events a run of this specification sees.
MaxTabletMotions == 3

\* The positions and the deltas the raw events of the devices hold; the
\* larger delta leads out of the view from everywhere.
TabletPositions == {<<1, 7>>, <<7, 1>>}
MotionDeltas == {<<30, 0>>, <<-8, -8>>}

RawToolProximity(tool) ==
  RawTool("TABLET_TOOL_PROXIMITY", 1, 7, tool) @@ [proximity_in |-> TRUE]

RawAxis(p, d) ==
  RawTablet("TABLET_TOOL_AXIS", p[1], p[2]) @@ [dx |-> d[1], dy |-> d[2]]

RawAxes == {RawAxis(p, d) : p \in TabletPositions, d \in MotionDeltas}

\* The tool libinput has in the proximity of the tablet: the tool of the
\* last proximity event it reported, the pen before the first.
RECURSIVE last_proximity_tool(_, _)
last_proximity_tool(events, i) ==
  IF i = 0 THEN Pen
  ELSE IF events[i].type = "TABLET_TOOL_PROXIMITY" THEN events[i].tool
  ELSE last_proximity_tool(events, i - 1)

ToolInProximity(li) ==
  last_proximity_tool(li.delivered \o li.pending,
                      Len(li.delivered) + Len(li.pending))

RawMouseMotions == {RawMotion("mouse0", d[1], d[2]) : d \in MotionDeltas}

InitTabletMotion ==
  /\ seat = meta_seat_impl_set_viewports(BootSeat(TabletMotionDevices), SingleView)
  /\ libinput = BootLibinput(TabletMotionDevices)
  /\ now = 0
  /\ native = NativeInit
  /\ vdevs = <<>>

TabletMotionsSoFar ==
  Len(DeliveredSinceBoot(libinput, TabletMotionDevices)) + Len(libinput.pending)

\* A tool comes into the proximity of the tablet.
ToolProximity(tool) ==
  /\ TabletMotionsSoFar < MaxTabletMotions
  /\ Post(RawToolProximity(tool))

\* The tablet reports a motion of its tool: the event is of the tool
\* libinput has in the proximity of the tablet.
TabletAxis(event) ==
  /\ TabletMotionsSoFar < MaxTabletMotions
  /\ Post([event EXCEPT !.tool = ToolInProximity(libinput)])

\* The mouse reports a motion.
MouseMotion(event) ==
  /\ TabletMotionsSoFar < MaxTabletMotions
  /\ Post(event)

\* meta_input_device_native_set_mapping_mode: the configuration of the
\* tablet changes how it maps its tool.
meta_input_device_native_set_mapping_mode(s, device, mode) ==
  [s EXCEPT !.mapping_mode[device] = mode]

MappingModes == {"ABSOLUTE", "RELATIVE"}

SetMappingMode(device, mode) ==
  /\ seat.mapping_mode[device] # mode
  /\ libinput.pending = <<>>
  /\ seat' = meta_input_device_native_set_mapping_mode(seat, device, mode)
  /\ UNCHANGED <<libinput, now, native, vdevs>>

NextTabletMotion ==
  \/ \E mode \in MappingModes : SetMappingMode("tablet0", mode)
  \/ \E tool \in {Pen, Puck} : ToolProximity(tool)
  \/ \E event \in RawAxes : TabletAxis(event)
  \/ \E event \in RawMouseMotions : MouseMotion(event)
  \/ EventDispatch
  \/ ClutterTakeEvents

SpecTabletMotion == InitTabletMotion /\ [][NextTabletMotion]_vars

\* Where process_tablet_axis takes the tablet: by the delta from the
\* coordinates of the tablet in the relative mapping mode and for a mouse
\* or a lens, to the position of the raw event otherwise.
TabletTarget(s, event) ==
  IF \/ s.mapping_mode[event.device] = "RELATIVE"
     \/ s.last_tool[event.device].type \in {"MOUSE", "LENS"}
  THEN Vec(QAdd(s.device_coords[event.device].x, Q(event.dx)),
           QAdd(s.device_coords[event.device].y, Q(event.dy)))
  ELSE Vec(stage_x(s, event), stage_y(s, event))

LastEmitted(s) == s.emitted[Len(s.emitted)]

\* The motion of a tablet: the seat differs from the seat before in the
\* coordinates of the tablet and in the event it has put out, and in
\* nothing else; the coordinates are the target as it is, in a view or not.
TabletMotionEffect(s, after, event, target) ==
  /\ after.pointer_x = s.pointer_x
  /\ after.pointer_y = s.pointer_y
  /\ after.device_coords[event.device] = target
  /\ after = [s EXCEPT !.device_coords[event.device] = target,
                       !.emitted = after.emitted]
  /\ Len(after.emitted) = Len(s.emitted) + 1
  /\ LastEmitted(after).type = "MOTION"
  /\ LastEmitted(after).source_device = event.device
  /\ Vec(LastEmitted(after).x, LastEmitted(after).y) = target

\* The motion of a device that is no tablet: the pointer of the seat is at
\* the constrained target, which is in a view, and so is the event; the
\* coordinates of the tablets stay.
PointerMotionEffect(s, after, event, c) ==
  /\ Vec(after.pointer_x, after.pointer_y) = c
  /\ InView(after)
  /\ after.device_coords = s.device_coords
  /\ LastEmitted(after).type = "MOTION"
  /\ LastEmitted(after).source_device = event.device
  /\ Vec(LastEmitted(after).x, LastEmitted(after).y) = c

\* C29: a motion of a tablet, absolute or relative to its tool, is not
\* constrained and leaves the pointer of the seat where it is; only the
\* coordinates of the tablet take the new position.  A motion of a device
\* that is no tablet is constrained and moves the pointer of the seat to the
\* constrained position.
C29_TabletMotionLeavesPointer ==
  /\ \A event \in RawAxes :
       TabletMotionEffect(seat, process_event(seat, event), event,
                          TabletTarget(seat, event))
  /\ \A event \in RawMouseMotions :
       PointerMotionEffect(
         seat, process_event(seat, event), event,
         meta_seat_impl_constrain_pointer(
           seat, QAdd(seat.pointer_x, Q(event.dx)),
           QAdd(seat.pointer_y, Q(event.dy))))

\* C29 witness: the mouse has moved the pointer to the edge of the view,
\* then the puck has moved the tablet out of the view, and the pointer has
\* stayed at the edge.
C29_Witness ==
  /\ seat.last_tool["tablet0"] = Puck
  /\ seat.device_coords["tablet0"] = Vec(Q(30), Q(0))
  /\ InView(seat)
  /\ seat.pointer_x # Q(INITIAL_POINTER_X)
  /\ LastEmitted(seat).kind = "event"
  /\ LastEmitted(seat).type = "MOTION"
  /\ LastEmitted(seat).source_device = "tablet0"
  /\ LastEmitted(seat).x = Q(30)
  /\ \E i \in DOMAIN seat.emitted :
       /\ seat.emitted[i].kind = "event"
       /\ seat.emitted[i].type = "MOTION"
       /\ seat.emitted[i].source_device = "mouse0"
       /\ seat.emitted[i].x = seat.pointer_x

(***************************************************************************)
(* Specification of the button state: a mouse and a tablet on one seat     *)
(* press and release their buttons, the pen touches the tablet with its    *)
(* tip and lifts it.                                                       *)
(***************************************************************************)
ButtonStateDevices == <<"mouse0", "tablet0">>

\* How many raw button events a run of this specification sees.
MaxButtonEvents == 4

\* The buttons of the mouse and the buttons of the tool of the tablet.
MouseButtons == {BTN_LEFT, BTN_RIGHT}
ToolButtons == {BTN_STYLUS, BTN_SIDE}

InitButtons ==
  /\ seat = meta_seat_impl_set_viewports(BootSeat(ButtonStateDevices), SingleView)
  /\ libinput = BootLibinput(ButtonStateDevices)
  /\ now = 0
  /\ native = NativeInit
  /\ vdevs = <<>>

ButtonEventsSoFar ==
  Len(DeliveredSinceBoot(libinput, ButtonStateDevices)) + Len(libinput.pending)

\* The mouse presses the button it has up, or releases the one it holds.
MouseButton(button, state) ==
  /\ ButtonEventsSoFar < MaxButtonEvents
  /\ ButtonChange("mouse0", button, state)

\* The tool of the tablet presses or releases one of its buttons.
ToolButton(button, state) ==
  /\ ButtonEventsSoFar < MaxButtonEvents
  /\ Len(libinput.pending) < MaxPending
  /\ (state = 1) = (<<"tablet0", button>> \notin libinput.down)
  /\ libinput' = libinput_post(
                   libinput_key(libinput, "tablet0", button, state),
                   RawToolButton(button, state, 4, 4))
  /\ UNCHANGED <<seat, now, native, vdevs>>

\* The tip of the pen goes down on the tablet or up.
ToolTip(tip_down) ==
  /\ ButtonEventsSoFar < MaxButtonEvents
  /\ Len(libinput.pending) < MaxPending
  /\ (tip_down = 1) = (<<"tablet0", BTN_TOUCH>> \notin libinput.down)
  /\ libinput' = libinput_post(
                   libinput_key(libinput, "tablet0", BTN_TOUCH, tip_down),
                   RawTip(tip_down, 4, 4))
  /\ UNCHANGED <<seat, now, native, vdevs>>

NextButtons ==
  \/ \E button \in MouseButtons, state \in {0, 1} : MouseButton(button, state)
  \/ \E button \in ToolButtons, state \in {0, 1} : ToolButton(button, state)
  \/ \E tip_down \in {0, 1} : ToolTip(tip_down)
  \/ EventDispatch
  \/ ClutterTakeEvents

SpecButtons == InitButtons /\ [][NextButtons]_vars

IsButtonEvent(e) ==
  e.kind = "event" /\ e.type \in {"BUTTON_PRESS", "BUTTON_RELEASE"}

\* The positions in the output of the presses of evdev buttons that are
\* held: the press was put out and no release of the same evdev button
\* after it.
HeldPresses(emitted) ==
  {i \in DOMAIN emitted :
     /\ IsButtonEvent(emitted[i])
     /\ emitted[i].type = "BUTTON_PRESS"
     /\ \A j \in (i + 1) .. Len(emitted) :
          ~(/\ IsButtonEvent(emitted[j])
            /\ emitted[j].type = "BUTTON_RELEASE"
            /\ emitted[j].event_code = emitted[i].event_code)}

\* Whether an evdev button that maps to the logical button n is held.
LogicalButtonHeld(emitted, held, n) ==
  \E i \in held : emitted[i].button = n

\* The buttons a device can report whose logical number is not in 1..12.
UnhandledButtons ==
  {b \in Range(ButtonStateDevices) \X Codes :
     button_nr_on(b[1], b[2]) < 1 \/ button_nr_on(b[1], b[2]) > 12}

\* A button event that is rejected puts out nothing and leaves the button
\* state alone.
Rejected(s, after) ==
  after.emitted = s.emitted /\ after.button_state = s.button_state

UnhandledButtonsRejected(s) ==
  \A b \in UnhandledButtons, state \in {0, 1} :
    Rejected(s, meta_seat_impl_notify_button(s, b[1], 0, b[2], state))

\* C31: for each logical button n in 1..5 the bit the map {Button1,
\* Button3, Button2, Button4, Button5} gives to n is set in button_state
\* if and only if an evdev button that maps to n is held, its press put out
\* and its release not yet; a button event whose logical number is outside
\* 1..12 is rejected, with no event put out and button_state unchanged.
C31_ButtonMaskIffHeld ==
  /\ \A n \in 1 .. 5 :
       (maskmap(n) \subseteq seat.button_state)
         <=> LogicalButtonHeld(seat.emitted, HeldPresses(seat.emitted), n)
  /\ UnhandledButtonsRejected(seat)

(***************************************************************************)
(* Motion compression (meta-seat-native.c).  The relative motion of an     *)
(* event is the native event data meta_event_native_set_relative_motion    *)
(* attaches to it: the fields dx, dy, dx_unaccel and dy_unaccel, which an   *)
(* event of an absolute motion does not have.                              *)
(***************************************************************************)
RelativeFields == {"dx", "dy", "dx_unaccel", "dy_unaccel"}

\* meta_event_native_get_relative_motion: whether the event has relative
\* motion, and the values; they are the caller's values when it has none.
meta_event_native_get_relative_motion(event, dx, dy, dx_unaccel, dy_unaccel) ==
  IF RelativeFields \subseteq DOMAIN event
  THEN [has |-> TRUE, dx |-> event.dx, dy |-> event.dy,
        dx_unaccel |-> event.dx_unaccel, dy_unaccel |-> event.dy_unaccel]
  ELSE [has |-> FALSE, dx |-> dx, dy |-> dy,
        dx_unaccel |-> dx_unaccel, dy_unaccel |-> dy_unaccel]

\* meta_event_native_set_relative_motion
meta_event_native_set_relative_motion(event, dx, dy, dx_unaccel, dy_unaccel) ==
  [dx |-> dx, dy |-> dy, dx_unaccel |-> dx_unaccel, dy_unaccel |-> dy_unaccel]
    @@ event

\* The sum meta_seat_native_compress_motion writes into the event.
add_relative_motion(event, src, dst) ==
  meta_event_native_set_relative_motion(
    event, QAdd(src.dx, dst.dx), QAdd(src.dy, dst.dy),
    QAdd(src.dx_unaccel, dst.dx_unaccel), QAdd(src.dy_unaccel, dst.dy_unaccel))

\* A meta_seat_native_compress_motion that writes the relative motion of
\* the discarded event over the one of the event.
meta_seat_native_compress_motion_overwriting(event, to_discard) ==
  IF ~meta_event_native_get_relative_motion(to_discard, Q(0), Q(0), Q(0), Q(0)).has
  THEN event
  ELSE add_relative_motion(
         event,
         meta_event_native_get_relative_motion(to_discard, Q(0), Q(0), Q(0), Q(0)),
         [dx |-> Q(0), dy |-> Q(0), dx_unaccel |-> Q(0), dy_unaccel |-> Q(0)])

\* meta_seat_native_compress_motion: the event once to_discard is
\* compressed into it.
meta_seat_native_compress_motion(event, to_discard) ==
  IF ~meta_event_native_get_relative_motion(to_discard, Q(0), Q(0), Q(0), Q(0)).has
  THEN event
  ELSE add_relative_motion(
         event,
         meta_event_native_get_relative_motion(to_discard, Q(0), Q(0), Q(0), Q(0)),
         meta_event_native_get_relative_motion(event, Q(0), Q(0), Q(0), Q(0)))

(***************************************************************************)
(* Specification of motion compression: the mouse moves and the compositor *)
(* warps the pointer; Clutter compresses the motion events it has not      *)
(* taken yet into the newest of them.                                      *)
(***************************************************************************)
CompressDevices == <<"mouse0">>

\* How many motions and warps a run of this specification sees.
MaxCompressMotions == 4

\* The motions of the mouse: the accelerated and the unaccelerated delta.
CompressMotions ==
  {[type |-> "POINTER_MOTION", device |-> "mouse0", time_us |-> 0,
    dx |-> d[1], dy |-> d[2], dx_unaccel |-> d[3], dy_unaccel |-> d[4]] :
     d \in {<<3, 1, 2, 1>>, <<-2, 5, -1, 3>>}}

InitCompress ==
  /\ seat = meta_seat_impl_set_viewports(BootSeat(CompressDevices), SingleView)
  /\ libinput = BootLibinput(CompressDevices)
  /\ now = 0
  /\ native = NativeInit
  /\ vdevs = <<>>

CompressMotionsSoFar ==
  Len(SelectSeq(seat.emitted, IsMotion)) + Len(libinput.pending)

\* The mouse reports a motion.
CompressMouseMotion(event) ==
  /\ CompressMotionsSoFar < MaxCompressMotions
  /\ Post(event)

\* The compositor warps the pointer.
CompressWarp(x, y) ==
  /\ CompressMotionsSoFar < MaxCompressMotions
  /\ seat' = meta_seat_impl_warp_pointer(seat, x, y)
  /\ UNCHANGED <<libinput, now, native, vdevs>>

NextCompress ==
  \/ \E event \in CompressMotions : CompressMouseMotion(event)
  \/ CompressWarp(5, 5)
  \/ EventDispatch
  \/ ClutterTakeEvents

SpecCompress == InitCompress /\ [][NextCompress]_vars

\* The motion events of the seat that Clutter has not taken yet, oldest
\* first.
PendingMotions(s) ==
  SelectSeq(SubSeq(Events(s), s.clutter_taken + 1, Len(Events(s))), IsMotion)

\* The relative motion of an event, 0 for an event that has none.
RelativeOrZero(event) ==
  meta_event_native_get_relative_motion(event, Q(0), Q(0), Q(0), Q(0))

SumOfRelative(a, b) ==
  [dx |-> QAdd(a.dx, b.dx), dy |-> QAdd(a.dy, b.dy),
   dx_unaccel |-> QAdd(a.dx_unaccel, b.dx_unaccel),
   dy_unaccel |-> QAdd(a.dy_unaccel, b.dy_unaccel)]

Deltas(r) ==
  [dx |-> r.dx, dy |-> r.dy, dx_unaccel |-> r.dx_unaccel,
   dy_unaccel |-> r.dy_unaccel]

\* The event without its relative motion.
WithoutRelative(event) ==
  [f \in DOMAIN event \ RelativeFields |-> event[f]]

\* One compression: the survivor has the sum of the two relative motions
\* and is the newer event in all the rest when the discarded event has
\* relative motion, and is the newer event as it was when it has none.
CompressedPair(event, to_discard, survivor) ==
  IF RelativeOrZero(to_discard).has
  THEN /\ RelativeOrZero(survivor).has
       /\ Deltas(RelativeOrZero(survivor)) =
            SumOfRelative(RelativeOrZero(event), RelativeOrZero(to_discard))
       /\ survivor.x = event.x /\ survivor.y = event.y
       /\ WithoutRelative(survivor) = WithoutRelative(event)
  ELSE survivor = event

\* The survivor of the first n events of a chain of compressions, each
\* event taking in the survivor of the events before it.
RECURSIVE CompressChain(_, _)
CompressChain(events, n) ==
  IF n = 1 THEN events[1]
  ELSE meta_seat_native_compress_motion(events[n], CompressChain(events, n - 1))

RECURSIVE SumOfChain(_, _)
SumOfChain(events, n) ==
  IF n = 0
  THEN [dx |-> Q(0), dy |-> Q(0), dx_unaccel |-> Q(0), dy_unaccel |-> Q(0)]
  ELSE SumOfRelative(SumOfChain(events, n - 1), RelativeOrZero(events[n]))

CompressionOf(motions) ==
  /\ \A i, j \in DOMAIN motions :
       i < j => CompressedPair(motions[j], motions[i],
                               meta_seat_native_compress_motion(motions[j],
                                                                motions[i]))
  /\ motions # <<>> =>
       /\ Deltas(RelativeOrZero(CompressChain(motions, Len(motions))))
            = SumOfChain(motions, Len(motions))
       /\ WithoutRelative(CompressChain(motions, Len(motions)))
            = WithoutRelative(motions[Len(motions)])

\* C34: when the discarded event has relative motion, the four relative
\* deltas of the surviving event become the sums of the deltas of the two
\* events, an event without relative motion counting as 0, and its
\* coordinates stay those of the newer event; when the discarded event has
\* none, the survivor is unchanged.  So over a chain of compressions the
\* relative delta of the survivor is the sum of the deltas of all the
\* events it stands for.
C34_CompressSumsDeltas == CompressionOf(PendingMotions(seat))

\* C34 witness: Clutter holds two motions of the mouse with different
\* deltas and two warps after them, and the survivor of their compression,
\* the second warp, has the sum of the deltas of the two motions.
C34_Witness ==
  /\ Len(PendingMotions(seat)) = 4
  /\ RelativeOrZero(PendingMotions(seat)[1]).has
  /\ RelativeOrZero(PendingMotions(seat)[2]).has
  /\ ~RelativeOrZero(PendingMotions(seat)[3]).has
  /\ ~RelativeOrZero(PendingMotions(seat)[4]).has
  /\ PendingMotions(seat)[1].dx # PendingMotions(seat)[2].dx
  /\ RelativeOrZero(CompressChain(PendingMotions(seat), 4)).dx_unaccel
       = QAdd(PendingMotions(seat)[1].dx_unaccel,
              PendingMotions(seat)[2].dx_unaccel)
  /\ CompressChain(PendingMotions(seat), 4).x = Q(5)

(***************************************************************************)
(* Specification of relative motion on a grid of outputs: four views of    *)
(* scale 1 that meet in one corner, and two views of scale 3 and 2 side by *)
(* side; the compositor warps the pointer and changes the layout, the      *)
(* mouse moves.                                                            *)
(***************************************************************************)
GridDevices == <<"mouse0">>

GridViews ==
  [set |-> TRUE,
   views |-> <<View(0, 0, 100, 100, 1), View(100, 0, 100, 100, 1),
               View(0, 100, 100, 100, 1), View(100, 100, 100, 100, 1)>>]
MixedScaleViews ==
  [set |-> TRUE, views |-> <<View(0, 0, 100, 100, 3), View(100, 0, 100, 100, 2)>>]

GridLayouts == {GridViews, MixedScaleViews}

GridWarps == {<<110, 110>>, <<85, 50>>}
GridDeltas == {<<-20, -20>>, <<6, 0>>}

\* How many motions and warps a run of this specification sees.
MaxGridMotions == 3

InitGrid ==
  /\ \E scaled \in BOOLEAN :
       seat = [meta_seat_impl_set_viewports(BootSeat(GridDevices), GridViews)
                 EXCEPT !.stage_views_scaled = scaled]
  /\ libinput = BootLibinput(GridDevices)
  /\ now = 0
  /\ native = NativeInit
  /\ vdevs = <<>>

\* The mouse reports a motion the input thread comes back from;
\* meta_seat_impl_filter_relative_motion sees the pointer where it is now,
\* as no warp and no other motion comes before the dispatch.
GridMotion(dx, dy) ==
  /\ MotionsSoFar < MaxGridMotions
  /\ libinput.pending = <<>>
  /\ filter_relative_motion_returns(seat, seat.pointer_x, seat.pointer_y,
                                    Q(dx), Q(dy))
  /\ Post(RawMotion("mouse0", dx, dy))

GridWarp(x, y) ==
  /\ MotionsSoFar < MaxGridMotions
  /\ libinput.pending = <<>>
  /\ seat' = meta_seat_impl_warp_pointer(seat, x, y)
  /\ UNCHANGED <<libinput, now, native, vdevs>>

GridSetViewports(viewports) ==
  /\ libinput.pending = <<>>
  /\ SetViewports(viewports)

NextGrid ==
  \/ \E d \in GridDeltas : GridMotion(d[1], d[2])
  \/ \E w \in GridWarps : GridWarp(w[1], w[2])
  \/ \E viewports \in GridLayouts : GridSetViewports(viewports)
  \/ EventDispatch
  \/ ClutterTakeEvents

SpecGrid == InitGrid /\ [][NextGrid]_vars

\* The view the pointer of the seat is in, -1 outside every view.
PointerView(s) ==
  meta_viewport_info_get_view_at(s.viewports, s.pointer_x, s.pointer_y)

\* The run of relative_motion_across_outputs from the pointer of the seat.
RunFromPointer(s, view, dx, dy) ==
  relative_motion_across_outputs_run(s.viewports, view, s.pointer_x,
                                     s.pointer_y, Q(dx), Q(dy))

\* C36: relative_motion_across_outputs terminates: from every position of
\* the pointer inside a view and for every raw delta, the loop that crosses
\* from view to neighbouring view exits after finitely many iterations.
C36_AcrossOutputsTerminates ==
  PointerView(seat) >= 0
    => \A d \in GridDeltas : RunFromPointer(seat, PointerView(seat), d[1], d[2]).exits

\* The delta out has the opposite sign of the delta in.
OppositeSign(in, out) ==
  \/ QLt(Q(0), in) /\ QLt(out, Q(0))
  \/ QLt(in, Q(0)) /\ QLt(Q(0), out)

SignKept(raw, filtered) ==
  ~OppositeSign(raw.x, filtered.x) /\ ~OppositeSign(raw.y, filtered.y)

FilteredFromPointer(s, dx, dy) ==
  meta_seat_impl_filter_relative_motion(s, s.pointer_x, s.pointer_y, dx, dy)

\* C37: the delta meta_seat_impl_filter_relative_motion leaves never has, on
\* either axis, the opposite sign of the raw delta on that axis, also when
\* the motion crosses between views of different scale.
C37_FilterKeepsSign ==
  \A d \in GridDeltas :
    filter_relative_motion_returns(seat, seat.pointer_x, seat.pointer_y,
                                   Q(d[1]), Q(d[2]))
      => SignKept(Vec(Q(d[1]), Q(d[2])),
                  FilteredFromPointer(seat, Q(d[1]), Q(d[2])))

(***************************************************************************)
(* Specification of the device ids: input devices are created, each with   *)
(* an id it acquires from the seat, and finalized, each giving its id      *)
(* back.  device_ids is the bag of the ids the live devices hold.          *)
(***************************************************************************)
\* How many devices are alive at once, and how many free ids may lie below
\* an id in use.
MaxLiveDevices == 11
MaxIdGaps == 2

InitDeviceIds ==
  /\ seat = SeatInit
  /\ libinput = LibinputInit
  /\ now = 0
  /\ native = NativeInit
  /\ vdevs = <<>>

\* The device that takes the id the seat hands out.
device_new(r) == [r.seat EXCEPT !.device_ids = @ (+) SetToBag({r.id})]

\* A device is created.
DeviceNew ==
  /\ BagCardinality(seat.device_ids) < MaxLiveDevices
  /\ seat' = device_new(meta_seat_impl_acquire_device_id(seat))
  /\ UNCHANGED <<libinput, now, native, vdevs>>

IdGaps(s) ==
  {i \in Range(s.free_device_ids) : \E h \in BagToSet(s.device_ids) : h > i}

\* The device that holds the id is finalized and gives the id back.
device_finalize(s, device_id) ==
  [meta_seat_impl_release_device_id(s, device_id)
     EXCEPT !.device_ids = @ (-) SetToBag({device_id})]

\* The last reference to a device goes.
DeviceFinalize(device_id) ==
  /\ BagIn(device_id, seat.device_ids)
  /\ Cardinality(IdGaps(device_finalize(seat, device_id))) <= MaxIdGaps
  /\ seat' = device_finalize(seat, device_id)
  /\ UNCHANGED <<libinput, now, native, vdevs>>

NextDeviceIds ==
  \/ DeviceNew
  \/ \E device_id \in BagToSet(seat.device_ids) : DeviceFinalize(device_id)

SpecDeviceIds == InitDeviceIds /\ [][NextDeviceIds]_vars

\* The smallest id from INITIAL_DEVICE_ID on that no live device holds.
SmallestFreeId(s) ==
  CHOOSE i \in INITIAL_DEVICE_ID .. s.device_id_next :
    /\ ~BagIn(i, s.device_ids)
    /\ \A j \in INITIAL_DEVICE_ID .. (i - 1) : BagIn(j, s.device_ids)

\* C30: meta_seat_impl_acquire_device_id returns the smallest id from 2 on
\* that no live device holds, 2 at first; so no two live devices hold the
\* same id, and an id given back is handed out again before any larger one.
C30_SmallestFreeId ==
  /\ meta_seat_impl_acquire_device_id(seat).id = SmallestFreeId(seat)
  /\ BagCardinality(seat.device_ids) = 0
       => meta_seat_impl_acquire_device_id(seat).id = INITIAL_DEVICE_ID
  /\ \A i \in BagToSet(seat.device_ids) : CopiesIn(i, seat.device_ids) = 1
  /\ \A i \in BagToSet(seat.device_ids) :
       meta_seat_impl_acquire_device_id(
         meta_seat_impl_release_device_id(seat, i)).id <= i

\* C30 witness: the free list has run out twice, the device with the id 3
\* is gone while the one with the id 12 lives, and 3 is the next id.
C30_Witness ==
  /\ seat.device_id_next = INITIAL_DEVICE_ID + 2 * DEVICE_ID_GROW_STEP
  /\ ~BagIn(3, seat.device_ids)
  /\ BagIn(2, seat.device_ids)
  /\ BagIn(12, seat.device_ids)
  /\ meta_seat_impl_acquire_device_id(seat).id = 3

(***************************************************************************)
(* Specification of the device list of the native seat: devices come and   *)
(* go, the session releases and reclaims them, a pen comes to the tablet   *)
(* and leaves it, fingers swipe and a button of the pad is pressed, and    *)
(* Clutter passes every event it takes from its queue to                   *)
(* meta_seat_native_handle_event_post.                                     *)
(***************************************************************************)
NativeListDevices == {"mouse0", "tablet0"}

InitNativeList ==
  /\ seat = SeatInit
  /\ libinput = LibinputInit
  /\ now = 0
  /\ native = NativeInit
  /\ vdevs = <<>>

\* A pen comes into the proximity of the tablet or leaves it.
PenProximity(in) ==
  /\ RawCount < MaxDeviceEvents
  /\ ~libinput.suspended
  /\ "tablet0" \in libinput.plugged
  /\ Post(RawProximity(in, 1, 7))

\* What libinput reports for a swipe of three fingers.
RawSwipe(type) ==
  [type |-> type, device |-> "mouse0", time_us |-> 0, finger_count |-> 3,
   dx |-> 2, dy |-> 0, cancelled |-> FALSE]

\* What libinput reports for the first button of the pad of the tablet.
RawPadButton(pressed) ==
  [type |-> "TABLET_PAD_BUTTON", device |-> "tablet0", time_us |-> 0,
   button |-> 0, group |-> 0, mode |-> 0,
   state |-> IF pressed THEN 1 ELSE 0]

\* Three fingers begin, go on with or end a swipe.
TouchpadSwipe(type) ==
  /\ RawCount < MaxDeviceEvents
  /\ ~libinput.suspended
  /\ "mouse0" \in libinput.plugged
  /\ Post(RawSwipe(type))

\* The first button of the pad is pressed or released.
PadButton(pressed) ==
  /\ RawCount < MaxDeviceEvents
  /\ ~libinput.suspended
  /\ "tablet0" \in libinput.plugged
  /\ Post(RawPadButton(pressed))

\* The events in the queue of Clutter.
PendingEvents(s) == SubSeq(Events(s), s.clutter_taken + 1, Len(Events(s)))

\* The stage takes the events of the Clutter queue; each is passed to the
\* seat after it has been processed.
ClutterHandleEvents ==
  /\ clutter_events_pending(seat)
  /\ seat' = clutter_take(seat)
  /\ native' = handle_events_post(native, PendingEvents(seat))
  /\ UNCHANGED <<libinput, now, vdevs>>

NextNativeList ==
  \/ \E d \in NativeListDevices : PlugDevice(d)
  \/ \E d \in NativeListDevices : UnplugDevice(d)
  \/ \E in \in BOOLEAN : PenProximity(in)
  \/ \E type \in {"GESTURE_SWIPE_BEGIN", "GESTURE_SWIPE_UPDATE",
                  "GESTURE_SWIPE_END"} : TouchpadSwipe(type)
  \/ \E pressed \in BOOLEAN : PadButton(pressed)
  \/ ReleaseDevices
  \/ ReclaimDevices
  \/ EventDispatch
  \/ ClutterHandleEvents

SpecNativeList == InitNativeList /\ [][NextNativeList]_vars

\* The physical devices in the device list of the seat implementation.
PhysicalDevices(s) ==
  {d \in Range(s.devices) : clutter_input_device_get_device_mode(d) # "LOGICAL"}

\* C39: once every event queued so far has been passed to
\* meta_seat_native_handle_event_post, the device list of the native seat
\* (peek_devices) holds exactly the physical devices of the device list of
\* the seat implementation, each exactly once.
C39_NativeListMatchesImpl ==
  ~clutter_events_pending(seat) =>
    /\ Range(native.devices) = PhysicalDevices(seat)
    /\ Cardinality(Range(native.devices)) = Len(native.devices)

\* C39 witness: a device was removed and the event of the removal handled;
\* the native seat lists the device that is left.
C39_Witness ==
  /\ ~clutter_events_pending(seat)
  /\ native.devices # <<>>
  /\ \E i \in DOMAIN Events(seat) : Events(seat)[i].type = "DEVICE_REMOVED"

(***************************************************************************)
(* Specification of the session: the devices are released and reclaimed,   *)
(* also when they should not be, while the keyboard and the mouse go on    *)
(* producing input.                                                        *)
(***************************************************************************)
SessionDevices == DeviceList({"keyboard0", "mouse0"})

\* How many raw input events a run sees, how often it releases the devices
\* and how many warnings it may log.
MaxSessionInputs == 3
MaxReleases == 1
MaxWarnings == 2

\* The native seat, the seat and libinput as they are now.
Here == [native |-> native, seat |-> seat, libinput |-> libinput]

InitSession ==
  /\ seat = meta_seat_impl_set_viewports(BootSeat(SessionDevices), SingleView)
  /\ libinput = BootLibinput(SessionDevices)
  /\ now = 0
  /\ native = NativeInit
  /\ vdevs = <<>>

CountDelivered(li, type) ==
  Cardinality({i \in DOMAIN li.delivered : li.delivered[i].type = type})

SessionInputsSoFar ==
  RawCount - CountDelivered(libinput, "DEVICE_ADDED")
           - CountDelivered(libinput, "DEVICE_REMOVED")

\* A device produces a raw event: libinput holds it ready, li being libinput
\* with the new state of the device; a suspended libinput has closed the
\* device and the event is lost.
SessionInput(event, li) ==
  /\ SessionInputsSoFar < MaxSessionInputs
  /\ IF libinput.suspended
     THEN libinput' = [libinput EXCEPT !.discarded = @ + 1]
     ELSE /\ Len(libinput.pending) < MaxPending
          /\ libinput' = libinput_post(li, event)
  /\ UNCHANGED <<seat, now, native, vdevs>>

SessionKey(key, state) ==
  /\ (state = 1) = (<<"keyboard0", key>> \notin libinput.down)
  /\ SessionInput(libinput_key_event(libinput, "keyboard0", key, state, 0),
                  libinput_key(libinput, "keyboard0", key, state))

SessionMotion(dx, dy) == SessionInput(RawMotion("mouse0", dx, dy), libinput)

SessionStep(x) ==
  /\ seat' = x.seat
  /\ libinput' = x.libinput
  /\ native' = x.native
  /\ UNCHANGED <<now, vdevs>>

\* meta_seat_native_release_devices is called, released or not.
SessionRelease ==
  /\ IF native.released THEN Len(native.warnings) < MaxWarnings
     ELSE CountDelivered(libinput, "DEVICE_REMOVED")
            < MaxReleases * Len(SessionDevices)
  /\ SessionStep(meta_seat_native_release_devices(Here))

\* meta_seat_native_reclaim_devices is called, released or not.
SessionReclaim ==
  /\ ~native.released => Len(native.warnings) < MaxWarnings
  /\ SessionStep(meta_seat_native_reclaim_devices(Here))

NextSession ==
  \/ \E state \in {0, 1} : SessionKey(KEY_CAPSLOCK, state)
  \/ SessionMotion(-8, 0)
  \/ SessionRelease
  \/ SessionReclaim
  \/ EventDispatch
  \/ ClutterTakeEvents

SpecSession == InitSession /\ [][NextSession]_vars

\* Two sessions that differ at most in the warnings logged.
SameButWarnings(x, y) ==
  [x EXCEPT !.native.warnings = <<>>] = [y EXCEPT !.native.warnings = <<>>]

\* C13: a release of released devices and a reclaim of devices that are not
\* released change nothing but the log of warnings, through the native seat
\* and through the seat itself: libinput is neither suspended nor resumed,
\* no raw event is taken, no event is put out, nothing aborts, the flags,
\* the device list, the pointer, the keyboard state and the repeat timer
\* stay; and two releases in a row leave what one release leaves.
C13_SpuriousCallsChangeNothing ==
  /\ native.released =>
       /\ SameButWarnings(meta_seat_native_release_devices(Here), Here)
       /\ SameButWarnings(seat_impl_release_devices(Here), Here)
  /\ ~native.released =>
       /\ SameButWarnings(meta_seat_native_reclaim_devices(Here), Here)
       /\ SameButWarnings(seat_impl_reclaim_devices(Here), Here)
  /\ SameButWarnings(
       meta_seat_native_release_devices(meta_seat_native_release_devices(Here)),
       meta_seat_native_release_devices(Here))

\* C13 witness: a release of released devices and a reclaim of devices not
\* released have both been called, the devices are released, the seat has
\* lost them and libinput is suspended.
C13_Witness ==
  /\ Range(native.warnings) = {"release", "reclaim"}
  /\ native.released /\ seat.released /\ libinput.suspended
  /\ seat.devices = <<>>
  /\ ~seat.aborted

\* The raw events a device produces while the devices are released.
InjectedEvents ==
  {RawMotion("mouse0", -8, 0),
   RawKey("keyboard0", KEY_CAPSLOCK, 1, 1) @@ [time_us |-> 0]}

InjectedSeqs ==
  {<<>>} \cup {<<e>> : e \in InjectedEvents}
         \cup {<<e, f>> : e \in InjectedEvents, f \in InjectedEvents}

\* The devices produce the events: they reach libinput unless it is
\* suspended.
source_inject(x, events) ==
  IF x.libinput.suspended
  THEN [x EXCEPT !.libinput.discarded = @ + Len(events)]
  ELSE [x EXCEPT !.libinput.pending = @ \o events]

\* The stage takes the events of the Clutter queue.
stage_takes(x) == [x EXCEPT !.seat = clutter_take(@)]

\* meta_event_dispatch with its call of libinput: nothing is read while
\* Clutter holds events of the batch before, and libinput keeps its events.
source_dispatch(x) ==
  IF clutter_events_pending(x.seat) THEN x
  ELSE [x EXCEPT !.seat = dispatch_libinput(@, x.libinput.pending),
                 !.libinput = libinput_drain(@)]

\* Release, the events the devices produce meanwhile, the stage taking the
\* Clutter queue, the dispatch of the input source, reclaim.
release_inject_reclaim(x, events) ==
  meta_seat_native_reclaim_devices(
    source_dispatch(
      stage_takes(
        source_inject(meta_seat_native_release_devices(x), events))))

SameAcrossRelease(before, after) ==
  /\ after.devices = before.devices
  /\ after.pointer_x = before.pointer_x
  /\ after.pointer_y = before.pointer_y
  /\ after.xkb.latched = before.xkb.latched
  /\ after.xkb.locked = before.xkb.locked

\* C14: from every state with the devices not released, a release, raw
\* events produced meanwhile and a reclaim leave the device list, the
\* pointer position and the latched and locked modifiers as they were
\* before the release.
C14_ReclaimRestores ==
  ~native.released =>
    \A events \in InjectedSeqs :
      SameAcrossRelease(seat, release_inject_reclaim(Here, events).seat)

\* C14 witness: the devices were released and reclaimed and raw events were
\* lost to the suspended libinput; Caps Lock is locked, the pointer has left
\* its first position and the device list is the one of the startup.
C14_Witness ==
  /\ ~native.released
  /\ CountDelivered(libinput, "DEVICE_REMOVED") = Len(SessionDevices)
  /\ CountDelivered(libinput, "DEVICE_ADDED") = 2 * Len(SessionDevices)
  /\ libinput.discarded > 0
  /\ "Lock" \in seat.xkb.locked
  /\ seat.pointer_x # Q(INITIAL_POINTER_X)
  /\ seat.devices = BootSeat(SessionDevices).devices

(***************************************************************************)
(* Specification of key repeat across a release of the devices: the        *)
(* keyboard and a virtual keyboard of the compositor press and release a   *)
(* repeatable key, the devices are released and reclaimed, time passes and *)
(* the repeat timer fires.                                                 *)
(***************************************************************************)
\* How many key events of the keyboard and of the virtual keyboard together
\* a run sees.
MaxReleasedKeys == 3

ReleasedKeysSoFar == SessionInputsSoFar + Len(vdevs)

\* The keyboard presses or releases the key, with nothing else pending.
PhysicalKey(key, state) ==
  /\ ReleasedKeysSoFar < MaxReleasedKeys
  /\ libinput.pending = <<>>
  /\ SessionKey(key, state)

\* The virtual keyboard notifies a press or a release of the key.
VirtualKey(key, state) ==
  /\ ReleasedKeysSoFar < MaxReleasedKeys
  /\ libinput.pending = <<>>
  /\ seat' = meta_seat_impl_notify_key(seat, VirtualKeyboard, now * 1000,
                                       key, state, TRUE)
  /\ vdevs' = Append(vdevs, [key |-> key, state |-> state])
  /\ UNCHANGED <<libinput, now, native>>

\* The devices are released, once in a run, and reclaimed when they are
\* released.
ReleaseWhenHeld ==
  /\ ~native.released
  /\ CountDelivered(libinput, "DEVICE_REMOVED") = 0
  /\ SessionRelease

ReclaimWhenReleased == native.released /\ SessionReclaim

NextReleased ==
  \/ \E state \in {0, 1} : PhysicalKey(KEY_A, state)
  \/ \E state \in {0, 1} : VirtualKey(KEY_A, state)
  \/ ReleaseWhenHeld
  \/ ReclaimWhenReleased
  \/ Tick(seat.timer_remaining)
  \/ KeyboardRepeat
  \/ EventDispatch
  \/ ClutterTakeEvents

SpecReleased == InitSession /\ [][NextReleased]_vars

\* The place of the last DEVICE_REMOVED event in the output, 0 without one.
LastRemoved(events) ==
  IF \E i \in DOMAIN events : events[i].type = "DEVICE_REMOVED"
  THEN CHOOSE i \in DOMAIN events :
         /\ events[i].type = "DEVICE_REMOVED"
         /\ \A j \in DOMAIN events : events[j].type = "DEVICE_REMOVED" => j <= i
  ELSE 0

\* C25: once release_devices has returned and until the devices are
\* reclaimed no key-repeat timer is pending, and no REPEATED key event is
\* put out after the removal of the devices.
C25_NoRepeatWhileReleased ==
  seat.released =>
    /\ seat.repeat_timer = 0
    /\ \A i \in DOMAIN Events(seat) :
         (i > LastRemoved(Events(seat)) /\ Events(seat)[i].type = "KEY_PRESS")
           => ~IsRepeated(Events(seat)[i])

\* The device is one of the devices plugged in and is not in the device
\* list of the seat: evdev_remove_device has taken it out.  A virtual device
\* is in no list and is never removed.
RemovedFromSeat(s, li, device) ==
  device \in li.plugged /\ device \notin Range(s.devices)

\* C38: whenever a key-repeat timer is pending a repeat device is latched
\* and that device has not been removed from the seat; the timer handle and
\* the latched device are set and cleared together.
C38_TimerLatchesLiveDevice ==
  /\ (seat.repeat_timer # 0) <=> (seat.repeat_device # "none")
  /\ seat.repeat_timer # 0 => ~RemovedFromSeat(seat, libinput, seat.repeat_device)

\* C38 witness: the keyboard was removed and added again, and a timer is
\* pending for a key it holds.
C38_Witness ==
  /\ seat.repeat_timer # 0
  /\ seat.repeat_device = "keyboard0"
  /\ "keyboard0" \in Range(seat.devices)
  /\ \E i \in DOMAIN Events(seat) :
       /\ Events(seat)[i].type = "DEVICE_REMOVED"
       /\ Events(seat)[i].device = "keyboard0"

\* The devices were released while the keyboard held a key with a timer
\* pending: the last key event is a press of the keyboard, the keyboard is
\* gone, and neither timer nor device is left.
ClearedAtRemoval ==
  /\ seat.released
  /\ "keyboard0" \notin Range(seat.devices)
  /\ KeyEvents(seat) # <<>>
  /\ KeyEvents(seat)[Len(KeyEvents(seat))].type = "KEY_PRESS"
  /\ KeyEvents(seat)[Len(KeyEvents(seat))].source_device = "keyboard0"
  /\ NoTimer(seat)

(***************************************************************************)
(* Specification of the keyboard state: the compositor sets the layout     *)
(* index, NumLock and the keymap while keys of the keyboard go down and    *)
(* up.  The run starts with the latched modifiers a keymap with a latching *)
(* Shift may have left.                                                    *)
(***************************************************************************)
KeyboardDevices == <<"keyboard0">>

\* The layout indices the compositor sets: those of the keymap and one
\* beyond them.
LayoutIndices == 0 .. xkb_keymap_num_layouts

\* How many events a run puts out and how many LED updates it makes.
MaxKeyboardEvents == 3
MaxLedUpdates == 4

InitKeyboard ==
  /\ \E latched \in {{}, {"Shift"}} :
       seat = [BootSeat(KeyboardDevices) EXCEPT !.xkb.latched = latched]
  /\ libinput = BootLibinput(KeyboardDevices)
  /\ now = 0
  /\ native = NativeInit
  /\ vdevs = <<>>

\* A key of the keyboard goes down or up; the press counter of the seat
\* tells which keys the one keyboard holds down, also after a new keymap
\* has emptied the xkb state.
KeyboardKey(key, state) ==
  /\ Len(EventsSinceBoot(seat, KeyboardDevices)) < MaxKeyboardEvents
  /\ Len(seat.led_updates) < MaxLedUpdates
  /\ (state = 1) = (seat.button_count[key] = 0)
  /\ seat' = meta_seat_impl_notify_key(seat, "keyboard0", now * 1000,
                                       key, state, TRUE)
  /\ UNCHANGED <<libinput, now, native, vdevs>>

\* meta_seat_native_set_keyboard_layout_index
SetKeyboardLayoutIndex(idx) ==
  /\ seat' = meta_seat_impl_set_keyboard_layout_index(seat, idx)
  /\ UNCHANGED <<libinput, now, native, vdevs>>

\* meta_seat_native_set_keyboard_map
SetKeyboardMap ==
  /\ Len(seat.led_updates) < MaxLedUpdates
  /\ seat' = meta_seat_impl_set_keyboard_map(seat)
  /\ UNCHANGED <<libinput, now, native, vdevs>>

\* meta_seat_native_set_keyboard_numlock
SetKeyboardNumlock(numlock_state) ==
  /\ Len(seat.led_updates) < MaxLedUpdates
  /\ seat' = meta_seat_impl_set_keyboard_numlock(seat, numlock_state)
  /\ UNCHANGED <<libinput, now, native, vdevs>>

NextKeyboard ==
  \/ \E key \in {KEY_CAPSLOCK, KEY_LEFTSHIFT}, state \in {0, 1} :
       KeyboardKey(key, state)
  \/ \E idx \in LayoutIndices : SetKeyboardLayoutIndex(idx)
  \/ \E numlock_state \in BOOLEAN : SetKeyboardNumlock(numlock_state)
  \/ SetKeyboardMap
  \/ ClutterTakeEvents

SpecKeyboard == InitKeyboard /\ [][NextKeyboard]_vars

\* The latched and the locked modifier masks of two seats are the same.
SameLatchedAndLocked(before, after) ==
  /\ xkb_state_serialize_mods(after.xkb, "LATCHED")
       = xkb_state_serialize_mods(before.xkb, "LATCHED")
  /\ xkb_state_serialize_mods(after.xkb, "LOCKED")
       = xkb_state_serialize_mods(before.xkb, "LOCKED")

\* C21: after set_keyboard_layout_index(i), get_keyboard_layout_index()
\* returns i, and the call leaves the latched and the locked modifier masks
\* of the keyboard state as they were.
C21_LayoutIndexRoundTrip ==
  \A idx \in LayoutIndices :
    /\ meta_seat_impl_get_keyboard_layout_index(
         meta_seat_impl_set_keyboard_layout_index(seat, idx)) = idx
    /\ SameLatchedAndLocked(seat,
                            meta_seat_impl_set_keyboard_layout_index(seat, idx))

\* C21 witness: the layout index was set to 1 and later to the index beyond
\* the keymap's layouts, with Shift latched and Caps Lock and NumLock
\* locked, and Shift held down.
C21_Witness ==
  /\ meta_seat_impl_get_keyboard_layout_index(seat) = xkb_keymap_num_layouts
  /\ seat.xkb.latched = {"Shift"}
  /\ seat.xkb.locked = {"Lock", "Mod2"}
  /\ KEY_LEFTSHIFT \in seat.xkb.down

\* The locked mask after set_keyboard_numlock(true) and then
\* set_keyboard_numlock(false).
LockedAfterNumlockOnOff(s) ==
  xkb_state_serialize_mods(
    meta_seat_impl_set_keyboard_numlock(
      meta_seat_impl_set_keyboard_numlock(s, TRUE), FALSE).xkb, "LOCKED")

\* C22 as claimed: for every keyboard state, set_keyboard_numlock(true)
\* followed by set_keyboard_numlock(false) leaves the locked modifier mask
\* equal to the mask before the two calls.
C22_NumlockOnOffRestores ==
  LockedAfterNumlockOnOff(seat) = xkb_state_serialize_mods(seat.xkb, "LOCKED")

\* C22: set_keyboard_numlock(true) followed by set_keyboard_numlock(false)
\* leaves the locked modifier mask without the NumLock (Mod2) bit and
\* otherwise as it was before the two calls: equal to the mask before when
\* NumLock was not locked then.
C22_NumlockOnOffClears ==
  /\ LockedAfterNumlockOnOff(seat)
       = mod_mask(seat.xkb.locked \ {"Mod2"}, Len(KeymapMods))
  /\ "Mod2" \notin seat.xkb.locked =>
       LockedAfterNumlockOnOff(seat) = xkb_state_serialize_mods(seat.xkb, "LOCKED")

\* C22 witness: with Caps Lock locked and its LED lit, NumLock was set and
\* cleared again: the LED updates end with Caps Lock, Caps Lock and NumLock,
\* Caps Lock, and the locked modifiers are those before the two calls.
C22_Witness ==
  /\ Len(seat.led_updates) >= 3
  /\ seat.led_updates[Len(seat.led_updates) - 2].leds = {"CAPS_LOCK"}
  /\ seat.led_updates[Len(seat.led_updates) - 1].leds = {"CAPS_LOCK", "NUM_LOCK"}
  /\ seat.led_updates[Len(seat.led_updates)].leds = {"CAPS_LOCK"}
  /\ seat.xkb.locked = {"Lock"}

(***************************************************************************)
(* Specification of the virtual touch-slot bases: virtual devices are      *)
(* created and torn down in any order.                                     *)
(***************************************************************************)
InitVirtual ==
  /\ seat = SeatInit
  /\ libinput = LibinputInit
  /\ now = 0
  /\ native = NativeInit
  /\ vdevs = <<>>

\* ClutterSeat.create_virtual_device: a new virtual device holding the base.
\* The record of the device keeps what the seat held before the call.
CreateVirtualDevice(device_type) ==
  /\ Len(vdevs) < MaxVirtualDevices
  /\ native' = meta_seat_native_create_virtual_device(native)
  /\ vdevs' = Append(vdevs, [slot_base   |-> native'.virtual_touch_slot_base,
                             device_type |-> device_type,
                             base_before |-> native.virtual_touch_slot_base,
                             reserved_before |-> native.reserved_virtual_slots,
                             live        |-> TRUE])
  /\ UNCHANGED <<seat, libinput, now>>

\* The teardown of a virtual device, which gives its slots back.
DestroyVirtualDevice(i) ==
  /\ vdevs[i].live
  /\ native' = meta_seat_native_release_touch_slots(native, vdevs[i].slot_base)
  /\ vdevs' = [vdevs EXCEPT ![i].live = FALSE]
  /\ UNCHANGED <<seat, libinput, now>>

NextVirtual ==
  \/ \E t \in VirtualDeviceTypes : CreateVirtualDevice(t)
  \/ \E i \in DOMAIN vdevs : DestroyVirtualDevice(i)

SpecVirtual == InitVirtual /\ [][NextVirtual]_vars

LiveVirtualDevices == {i \in DOMAIN vdevs : vdevs[i].live}

\* C9: no two live virtual devices hold the same touch-slot base, in any
\* interleaving of creations and teardowns: the bases of the live devices
\* are distinct, they are the reserved bases, and every device was handed a
\* base that was not reserved when it was created.
C9_LiveBasesDistinct ==
  /\ \A i, j \in LiveVirtualDevices : i # j => vdevs[i].slot_base # vdevs[j].slot_base
  /\ {vdevs[i].slot_base : i \in LiveVirtualDevices} = native.reserved_virtual_slots
  /\ \A i \in DOMAIN vdevs : vdevs[i].slot_base \notin vdevs[i].reserved_before

\* C9 witness: two devices are live after an earlier one was torn down.
C9_Witness ==
  /\ Cardinality(LiveVirtualDevices) >= 2
  /\ \E i \in DOMAIN vdevs : ~vdevs[i].live

\* C10, as the code has it: a reservation returns the first base that is
\* not reserved above the base handed out last (above 0x100 for the first
\* one), in steps of the per-device maximum, and that base is a multiple of
\* the maximum; so every reservation returns the base one maximum above the
\* reservation before it, also when that one was released in between.
C10_ReserveBumpsPastLast ==
  /\ \A i \in DOMAIN vdevs :
       /\ vdevs[i].slot_base =
            lowest_free_from(
              (IF vdevs[i].base_before < VIRTUAL_SLOT_BASE_MIN
               THEN VIRTUAL_SLOT_BASE_MIN ELSE vdevs[i].base_before)
                + CLUTTER_VIRTUAL_INPUT_DEVICE_MAX_TOUCH_SLOTS,
              vdevs[i].reserved_before)
       /\ vdevs[i].slot_base % CLUTTER_VIRTUAL_INPUT_DEVICE_MAX_TOUCH_SLOTS = 0
  /\ \A i \in DOMAIN vdevs :
       i > 1 => vdevs[i].slot_base =
                  vdevs[i - 1].slot_base + CLUTTER_VIRTUAL_INPUT_DEVICE_MAX_TOUCH_SLOTS

\* C10 witness: a base was reserved, released, and the next reservation made.
C10_Witness ==
  \E i \in DOMAIN vdevs :
    /\ i > 1
    /\ vdevs[i - 1].slot_base \notin vdevs[i].reserved_before

\* C10 as stated: a reservation returns the smallest base from 0x100 on that
\* is not reserved, so that reserving again after a release returns the
\* same base.
C10_SmallestFreeBase ==
  \A i \in DOMAIN vdevs :
    vdevs[i].slot_base = lowest_free_from(VIRTUAL_SLOT_BASE_MIN,
                                          vdevs[i].reserved_before)

====
